---- MODULE Spec2Model ----
(***************************************************************************)
(* A model of evo2: bounded numeric values (number_types.rs), the budget   *)
(* allocator and the cell step (cell.rs), the food sources                 *)
(* (food_sources.rs) and the world tick (world.rs).                        *)
(*                                                                         *)
(* Numbers are exact: an f32 is modelled as a fraction n/d in lowest terms *)
(* with d > 0.  The three values IEEE arithmetic adds to the finite ones   *)
(* are kept, because the code can produce them by dividing by zero:        *)
(*   +inf = 1/0,  -inf = -1/0,  NaN = 0/0.                                 *)
(* Rounding of f32 is not modelled.                                        *)
(***************************************************************************)
EXTENDS Integers, Sequences, FiniteSets, Bags, TLC

VARIABLES
    constants,      \* the CellConstants values behind the Rc handles: id -> value
    cells,          \* World.cells: the sequence of cells (a Vec, 1-based here)
    food,           \* World.food
    food_sources,   \* World.food_sources: the sequence of food sources
    mutation_number_source,  \* the MutationNumberSource handed to every tick
    panicked,       \* TRUE once an assert! of the program has failed
    ticks,          \* number of World.step calls made so far
    last,           \* what the last World.step did and returned (history)
    call            \* the pure-function call under check (budget)

vars == <<constants, cells, food, food_sources, mutation_number_source, panicked, ticks, last, call>>

worldVars == <<constants, cells, food, food_sources, mutation_number_source, panicked, ticks, last>>

(***************************************************************************)
(* Bounds of the model.                                                    *)
(***************************************************************************)
MaxN == 3           \* longest list of desired amounts given to budget
MaxHalves == 3      \* amounts 0, 1/2, ..., MaxHalves/2 are tried in budget
MaxInitCells == 2   \* most cells in an initial world
MaxCells == 4       \* a tick is taken only on a population of at most MaxCells
MaxTicks == 2       \* most ticks of a run

(***************************************************************************)
(* f32 arithmetic, exact.                                                  *)
(***************************************************************************)
Abs(x) == IF x < 0 THEN -x ELSE x

Sgn(x) == IF x < 0 THEN -1 ELSE IF x = 0 THEN 0 ELSE 1

RECURSIVE GCD(_, _)
GCD(a, b) == IF b = 0 THEN a ELSE GCD(b, a % b)

Reduced(n, d, g) == [n |-> n \div g, d |-> d \div g]

\* The f32 with value n/d (d may be 0: see the head of the module).
F(n, d) ==
    IF d = 0 THEN [n |-> Sgn(n), d |-> 0]
    ELSE Reduced(Sgn(d) * n, Abs(d), GCD(Abs(n), Abs(d)))

Zero == F(0, 1)
One == F(1, 1)
NaN == F(0, 0)
Infinity == F(1, 0)

is_nan(x) == x.n = 0 /\ x.d = 0

f32_add(a, b) ==
    IF a.d = 0 /\ b.d = 0
    THEN (IF a.n = b.n THEN a ELSE NaN)
    ELSE F(a.n * b.d + b.n * a.d, a.d * b.d)

f32_neg(a) == [n |-> -a.n, d |-> a.d]

f32_sub(a, b) == f32_add(a, f32_neg(b))

f32_mul(a, b) == F(a.n * b.n, a.d * b.d)

\* x / 0.0 is +inf or -inf by the sign of x, and 0.0 / 0.0 is NaN.
f32_div(a, b) == F(a.n * b.d, a.d * b.n)

\* Every comparison with NaN is false.
f32_lt(a, b) ==
    /\ ~is_nan(a)
    /\ ~is_nan(b)
    /\ IF a.d = 0 /\ b.d = 0 THEN a.n < b.n ELSE a.n * b.d < b.n * a.d

f32_le(a, b) ==
    /\ ~is_nan(a)
    /\ ~is_nan(b)
    /\ IF a.d = 0 /\ b.d = 0 THEN a.n <= b.n ELSE a.n * b.d <= b.n * a.d

f32_ge(a, b) == f32_le(b, a)

f32_gt(a, b) == f32_lt(b, a)

\* f32::max and f32::min return the other operand when one is NaN.
f32_max(a, b) ==
    IF is_nan(a) THEN b ELSE IF is_nan(b) THEN a ELSE IF f32_lt(a, b) THEN b ELSE a

f32_min(a, b) ==
    IF is_nan(a) THEN b ELSE IF is_nan(b) THEN a ELSE IF f32_lt(b, a) THEN b ELSE a

(***************************************************************************)
(* number_types.rs: F32Positive, F32ZeroToOne, F32ZeroToOnePerF32Positive. *)
(***************************************************************************)
\* assert!(value >= 0.0) of F32Positive::checked fails
F32Positive_checked_fails(value) == ~f32_ge(value, Zero)

F32Positive_clipped(value) == f32_max(value, Zero)

F32Positive_min(self, other) == f32_min(self, other)

F32Positive_add(self, other) == f32_add(self, other)

F32Positive_div(self, other) == f32_div(self, other)

F32Positive_mul(self, other) == f32_mul(self, other)

F32Positive_sub(self, other) == F32Positive_clipped(f32_sub(self, other))

\* (mutant: only the lower bound is asserted)
F32ZeroToOne_checked_fails_below_zero(value) == ~f32_ge(value, Zero)

\* assert!((0.0..=1.0).contains(&value)) of F32ZeroToOne::checked fails
F32ZeroToOne_checked_fails(value) == ~(f32_ge(value, Zero) /\ f32_le(value, One))

\* (mutant: the value is not clipped)
F32ZeroToOne_unclipped(value) == value

F32ZeroToOne_clipped(value) == f32_min(f32_max(value, Zero), One)

F32ZeroToOne_add(self, other) == F32ZeroToOne_clipped(f32_add(self, other))

F32ZeroToOne_sub(self, other) == F32ZeroToOne_clipped(f32_sub(self, other))

\* F32Positive * F32ZeroToOnePerF32Positive, in either order
Rate_mul(self, other) == F32ZeroToOne_clipped(f32_mul(self, other))

(***************************************************************************)
(* cell.rs: budget.                                                        *)
(***************************************************************************)
RECURSIVE SumSeq(_)
SumSeq(s) == IF s = <<>> THEN Zero ELSE F32Positive_add(SumSeq(SubSeq(s, 1, Len(s) - 1)), s[Len(s)])

\* (mutant: the requests are scaled whatever their sum)
budget_always_scales(available, desired, desired_sum) ==
    [total |-> available,
     budgeted |-> [i \in DOMAIN desired |->
                      F32Positive_mul(desired[i],
                                      F32Positive_div(available, desired_sum))]]

\* (mutant: the factor is desired_sum / available)
budget_scales_by_inverse(available, desired, desired_sum) ==
    IF f32_lt(available, desired_sum)
    THEN [total |-> available,
          budgeted |-> [i \in DOMAIN desired |->
                           F32Positive_mul(desired[i],
                                           F32Positive_div(desired_sum, available))]]
    ELSE [total |-> desired_sum, budgeted |-> desired]

\* (mutant: the requests are never scaled)
budget_never_scales(available, desired, desired_sum) ==
    [total |-> desired_sum, budgeted |-> desired]

\* (mutant: the requests are scaled when available <= desired_sum)
budget_scales_on_le(available, desired, desired_sum) ==
    IF f32_le(available, desired_sum)
    THEN [total |-> available,
          budgeted |-> [i \in DOMAIN desired |->
                           F32Positive_mul(desired[i],
                                           F32Positive_div(available, desired_sum))]]
    ELSE [total |-> desired_sum, budgeted |-> desired]

\* (mutant: the requests are served in order, each in full while anything
\* is left)
budget_first_come(available, desired, desired_sum) ==
    IF f32_lt(available, desired_sum)
    THEN [total |-> available,
          budgeted |-> [i \in DOMAIN desired |->
                           F32Positive_min(desired[i],
                               F32Positive_sub(available,
                                               SumSeq(SubSeq(desired, 1, i - 1))))]]
    ELSE [total |-> desired_sum, budgeted |-> desired]

budget_with(available, desired, desired_sum) ==
    IF f32_lt(available, desired_sum)
    THEN [total |-> available,
          budgeted |-> [i \in DOMAIN desired |->
                           F32Positive_mul(desired[i],
                                           F32Positive_div(available, desired_sum))]]
    ELSE [total |-> desired_sum, budgeted |-> desired]

budget(available, desired) == budget_with(available, desired, SumSeq(desired))

(***************************************************************************)
(* cell.rs: Cell.  A cell is [constants, params, state]; constants is the  *)
(* Rc handle (an id into the variable constants).  An Option<Cell> is a    *)
(* sequence of length 0 (None) or 1 (Some).                                *)
(***************************************************************************)
CellState_DEFAULT == [energy |-> Zero, health |-> One]

Cell_new(constants_rc, params) ==
    [constants |-> constants_rc, params |-> params, state |-> CellState_DEFAULT]

with_health(self, health) == [self EXCEPT !.state.health = health]

with_energy(self, energy) == [self EXCEPT !.state.energy = energy]

\* (mutant: a cell lives while it has energy)
is_alive_by_energy(self) == f32_gt(self.state.energy, Zero)

is_alive(self) == f32_gt(self.state.health, Zero)

(***************************************************************************)
(* cell.rs: the mutation number sources.  The random source samples        *)
(* Normal(value, stdev) until the sample is >= 0; a sample is modelled as  *)
(* value + z * stdev, and the source holds the z of its next draws.  The   *)
(* result of mutate is a sequence: <<v>> when the loop returns v, <<>>     *)
(* when every draw the source holds has been rejected (the loop is still   *)
(* sampling).                                                              *)
(***************************************************************************)
NullMutationNumberSource == [kind |-> "Null"]

AdditiveMutationNumberSource == [kind |-> "Additive"]

RandomMutationNumberSource(draws) == [kind |-> "Random", draws |-> draws]

\* normal.sample(&mut self.rng) for the draw z
Normal_sample(value, stdev, z) == f32_add(value, f32_mul(z, stdev))

RECURSIVE RandomMutationNumberSource_mutate(_, _, _)

\* (mutant: the first sample is returned whatever its sign)
RandomMutationNumberSource_unchecked(draws, mutated, value, stdev) == <<mutated>>

\* one pass of the loop: mutated is the sample of the first of draws
RandomMutationNumberSource_sampled(draws, mutated, value, stdev) ==
    IF f32_ge(mutated, Zero)
    THEN <<mutated>>
    ELSE RandomMutationNumberSource_mutate(Tail(draws), value, stdev)

RandomMutationNumberSource_mutate(draws, value, stdev) ==
    IF draws = <<>>
    THEN <<>>
    ELSE RandomMutationNumberSource_sampled(
            draws, Normal_sample(value, stdev, draws[1]), value, stdev)

\* mutate of the three sources, as a sequence (see above)
MutationNumberSource_mutate_returns(source, value, stdev) ==
    CASE source.kind = "Null" -> <<value>>
      [] source.kind = "Additive" -> <<f32_add(value, stdev)>>
      [] source.kind = "Random" ->
            RandomMutationNumberSource_mutate(source.draws, value, stdev)

\* the value mutate returns
MutationNumberSource_mutate(source, value, stdev) ==
    MutationNumberSource_mutate_returns(source, value, stdev)[1]

budget_including_reproduction_of(b) ==
    [total_budgeted |-> b.total,
     budgeted_energies |-> [reproduction |-> b.budgeted[1],
                            eating |-> b.budgeted[2],
                            healing |-> b.budgeted[3]]]

budget_including_reproduction(self) ==
    budget_including_reproduction_of(
        budget(self.state.energy,
               <<self.params.child_threshold_energy,
                 self.params.attempted_eating_energy,
                 self.params.attempted_healing_energy>>))

\* returns no child: budget_and_maybe_reproduce adds None to it
budget_excluding_reproduction_of(b) ==
    [total_budgeted |-> b.total,
     budgeted_energies |-> [reproduction |-> Zero,
                            eating |-> b.budgeted[1],
                            healing |-> b.budgeted[2]],
     child |-> <<>>]

budget_excluding_reproduction(self) ==
    budget_excluding_reproduction_of(
        budget(self.state.energy,
               <<self.params.attempted_eating_energy,
                 self.params.attempted_healing_energy>>))

\* (mutant: an offspring needs a positive reproduction amount)
can_reproduce_on_positive_amount(self, reproduction_energy, environment) ==
    /\ f32_gt(reproduction_energy, Zero)
    /\ f32_ge(reproduction_energy, self.params.child_threshold_energy)
    /\ f32_ge(environment.food_per_cell, self.params.child_threshold_food)

\* (mutant: any positive reproduction amount will do)
can_reproduce_on_any_amount(self, reproduction_energy, environment) ==
    /\ \/ f32_gt(reproduction_energy, Zero)
       \/ f32_ge(reproduction_energy, self.params.child_threshold_energy)
    /\ f32_ge(environment.food_per_cell, self.params.child_threshold_food)

\* (mutant: the food threshold is not looked at)
can_reproduce_on_energy_alone(self, reproduction_energy, environment) ==
    f32_ge(reproduction_energy, self.params.child_threshold_energy)

can_reproduce(self, reproduction_energy, environment) ==
    /\ f32_ge(reproduction_energy, self.params.child_threshold_energy)
    /\ f32_ge(environment.food_per_cell, self.params.child_threshold_food)

\* (mutant: every param is mutated with the stdev of the eating energy)
mutate_with_one_stdev(self, k, mutation_number_source_) ==
    [self EXCEPT !.params =
        [attempted_eating_energy |->
            MutationNumberSource_mutate(mutation_number_source_,
                self.params.attempted_eating_energy,
                k.attempted_eating_energy_mutation_stdev),
         attempted_healing_energy |->
            MutationNumberSource_mutate(mutation_number_source_,
                self.params.attempted_healing_energy,
                k.attempted_eating_energy_mutation_stdev),
         child_threshold_energy |->
            MutationNumberSource_mutate(mutation_number_source_,
                self.params.child_threshold_energy,
                k.attempted_eating_energy_mutation_stdev),
         child_threshold_food |->
            MutationNumberSource_mutate(mutation_number_source_,
                self.params.child_threshold_food,
                k.attempted_eating_energy_mutation_stdev)]]

mutate_with(self, k, mutation_number_source_) ==
    [self EXCEPT !.params =
        [attempted_eating_energy |->
            MutationNumberSource_mutate(mutation_number_source_,
                self.params.attempted_eating_energy,
                k.attempted_eating_energy_mutation_stdev),
         attempted_healing_energy |->
            MutationNumberSource_mutate(mutation_number_source_,
                self.params.attempted_healing_energy,
                k.attempted_healing_energy_mutation_stdev),
         child_threshold_energy |->
            MutationNumberSource_mutate(mutation_number_source_,
                self.params.child_threshold_energy,
                k.child_threshold_energy_mutation_stdev),
         child_threshold_food |->
            MutationNumberSource_mutate(mutation_number_source_,
                self.params.child_threshold_food,
                k.child_threshold_food_mutation_stdev)]]

mutate(self, mutation_number_source_) ==
    mutate_with(self, constants[self.constants], mutation_number_source_)

\* (mutant: the child keeps the energy of its parent)
reproduce_keeping_energy(self, reproduction_energy, mutation_number_source_) ==
    <<[mutate(self, mutation_number_source_) EXCEPT !.state.health = One]>>

\* (mutant: the child keeps the health of its parent)
reproduce_keeping_health(self, reproduction_energy, mutation_number_source_) ==
    <<[mutate(self, mutation_number_source_) EXCEPT
         !.state.energy = F32Positive_sub(reproduction_energy,
                              constants[self.constants].create_child_energy)]>>

reproduce(self, reproduction_energy, mutation_number_source_) ==
    <<[mutate(self, mutation_number_source_) EXCEPT
         !.state.health = One,
         !.state.energy = F32Positive_sub(reproduction_energy,
                              constants[self.constants].create_child_energy)]>>

\* (mutant: without a child the three-way shares of eating and healing are
\* kept and only the reproduction share is dropped)
budget_and_maybe_reproduce_without_rerun(self, b, mutation_number_source_, environment) ==
    IF can_reproduce(self, b.budgeted_energies.reproduction, environment)
    THEN [total_budgeted |-> b.total_budgeted,
          budgeted_energies |-> b.budgeted_energies,
          child |-> reproduce(self, b.budgeted_energies.reproduction,
                              mutation_number_source_)]
    ELSE [total_budgeted |-> f32_add(b.budgeted_energies.eating,
                                     b.budgeted_energies.healing),
          budgeted_energies |-> [b.budgeted_energies EXCEPT !.reproduction = Zero],
          child |-> <<>>]

budget_and_maybe_reproduce_with(self, b, mutation_number_source_, environment) ==
    IF can_reproduce(self, b.budgeted_energies.reproduction, environment)
    THEN [total_budgeted |-> b.total_budgeted,
          budgeted_energies |-> b.budgeted_energies,
          child |-> reproduce(self, b.budgeted_energies.reproduction,
                              mutation_number_source_)]
    ELSE budget_excluding_reproduction(self)

budget_and_maybe_reproduce(self, mutation_number_source_, environment) ==
    budget_and_maybe_reproduce_with(self, budget_including_reproduction(self),
                                    mutation_number_source_, environment)

\* (mutant: the share of the cell does not limit what it eats)
eat_beyond_share(self, eating_energy, food_per_cell) ==
    F32Positive_mul(eating_energy, constants[self.constants].food_yield_from_eating)

eat(self, eating_energy, food_per_cell) ==
    F32Positive_min(
        F32Positive_mul(eating_energy, constants[self.constants].food_yield_from_eating),
        food_per_cell)

\* (mutant: the food is added to the energy as it is)
digest_without_yield(self, food_amount) ==
    [self EXCEPT !.state.energy = F32Positive_add(@, food_amount)]

digest(self, food_amount) ==
    [self EXCEPT !.state.energy =
        F32Positive_add(@, F32Positive_mul(food_amount,
                               constants[self.constants].energy_yield_from_digestion))]

\* (mutant: a cell at full health does not age)
entropy_spares_full_health(self) ==
    IF self.state.health = One THEN self
    ELSE [self EXCEPT !.state.health =
            F32ZeroToOne_sub(@, constants[self.constants].health_reduction_from_entropy)]

entropy(self) ==
    [self EXCEPT !.state.health =
        F32ZeroToOne_sub(@, constants[self.constants].health_reduction_from_entropy)]

heal(self, healing_energy) ==
    [self EXCEPT !.state.health =
        F32ZeroToOne_add(@, Rate_mul(healing_energy,
                                constants[self.constants].health_increase_per_healing_energy))]

\* (mutant: expended energy does not damage health)
expend_energy_without_damage(self, energy) ==
    [self EXCEPT !.state.energy = F32Positive_sub(@, energy)]

expend_energy(self, energy) ==
    [self EXCEPT
        !.state.energy = F32Positive_sub(@, energy),
        !.state.health = F32ZeroToOne_sub(@,
            Rate_mul(energy, constants[self.constants].health_reduction_per_energy_expended))]

\* Cell::step from the budget on: the cell after the step, the Option<Cell>
\* child, the food eaten; and, for the record, what was budgeted and the cell
\* as it was after expend_energy (expended) and after entropy (aged).
\* (mutant: healing is applied before entropy)
Cell_step_heals_before_entropy(expended, aged, food_eaten, b) ==
    [cell |-> entropy(heal(digest(expended, food_eaten), b.budgeted_energies.healing)),
     child |-> b.child,
     food |-> food_eaten,
     total_budgeted |-> b.total_budgeted,
     budgeted_energies |-> b.budgeted_energies,
     expended |-> expended,
     aged |-> aged]

\* (mutant: a cell without health after entropy is not healed)
Cell_step_aged_to_death(expended, aged, food_eaten, b) ==
    [cell |-> IF aged.state.health = Zero THEN aged
              ELSE heal(aged, b.budgeted_energies.healing),
     child |-> b.child,
     food |-> food_eaten,
     total_budgeted |-> b.total_budgeted,
     budgeted_energies |-> b.budgeted_energies,
     expended |-> expended,
     aged |-> aged]

Cell_step_aged(expended, aged, food_eaten, b) ==
    [cell |-> heal(aged, b.budgeted_energies.healing),
     child |-> b.child,
     food |-> food_eaten,
     total_budgeted |-> b.total_budgeted,
     budgeted_energies |-> b.budgeted_energies,
     expended |-> expended,
     aged |-> aged]

Cell_step_eaten(expended, food_eaten, b) ==
    Cell_step_aged(expended, entropy(digest(expended, food_eaten)), food_eaten, b)

Cell_step_expended(expended, b, environment) ==
    Cell_step_eaten(expended,
                    eat(expended, b.budgeted_energies.eating, environment.food_per_cell),
                    b)

\* (mutant: mutate is applied to the cell itself, not to its clone only)
Cell_step_mutating_parent(self, b, environment) ==
    Cell_step_expended(
        expend_energy(IF b.child = <<>> THEN self
                      ELSE [self EXCEPT !.params = b.child[1].params],
                      b.total_budgeted),
        b, environment)

Cell_step_budgeted(self, b, environment) ==
    Cell_step_expended(expend_energy(self, b.total_budgeted), b, environment)

Cell_step(self, mutation_number_source_, environment) ==
    Cell_step_budgeted(self,
                       budget_and_maybe_reproduce(self, mutation_number_source_, environment),
                       environment)

(***************************************************************************)
(* food_sources.rs.  food_this_step returns the amount and the source      *)
(* after the call.                                                         *)
(***************************************************************************)
ConstantFoodSource_new(food_per_step) ==
    [kind |-> "Constant", food_per_step |-> food_per_step]

LinearlyGrowingFoodSource_new(starting_food, food_increase_per_step) ==
    [kind |-> "LinearlyGrowing", next_food |-> starting_food,
     food_increase_per_step |-> food_increase_per_step]

\* (mutant: the growing source grows before it yields)
food_this_step_grown_first(self) ==
    IF self.kind = "Constant"
    THEN [result |-> self.food_per_step, self |-> self]
    ELSE [result |-> F32Positive_add(self.next_food, self.food_increase_per_step),
          self |-> [self EXCEPT !.next_food =
                       F32Positive_add(@, self.food_increase_per_step)]]

food_this_step(self) ==
    IF self.kind = "Constant"
    THEN [result |-> self.food_per_step, self |-> self]
    ELSE [result |-> self.next_food,
          self |-> [self EXCEPT !.next_food =
                       F32Positive_add(@, self.food_increase_per_step)]]

(***************************************************************************)
(* world.rs: World.  Indexes into cells are 0-based as in the code;        *)
(* cells[i + 1] here is the code's cells[i].                               *)
(***************************************************************************)
\* One pass of the loop of step_food_sources, on w = [food, food_sources].
step_food_source(w, polled) ==
    [food |-> F32Positive_add(w.food, polled.result),
     food_sources |-> Append(w.food_sources, polled.self)]

\* step_food_sources on (food, food_sources), as a left-to-right loop
RECURSIVE step_food_sources(_, _)
step_food_sources(food_, sources) ==
    IF sources = <<>>
    THEN [food |-> food_, food_sources |-> <<>>]
    ELSE step_food_source(step_food_sources(food_, SubSeq(sources, 1, Len(sources) - 1)),
                          food_this_step(sources[Len(sources)]))

\* (mutant: what a cell eats is added to the pool)
step_one_cell_feeding_pool(w, stepped, index) ==
    [cells |-> [w.cells EXCEPT ![index + 1] = stepped.cell],
     food |-> F32Positive_add(w.food, stepped.food),
     new_cells |-> w.new_cells \o stepped.child,
     dead_cell_indexes |->
        IF ~is_alive(stepped.cell)
        THEN Append(w.dead_cell_indexes, index)
        ELSE w.dead_cell_indexes,
     eaten |-> Append(w.eaten, stepped.food)]

\* (mutant: what a cell eats is not taken from the pool)
step_one_cell_keeping_food(w, stepped, index) ==
    [cells |-> [w.cells EXCEPT ![index + 1] = stepped.cell],
     food |-> w.food,
     new_cells |-> w.new_cells \o stepped.child,
     dead_cell_indexes |->
        IF ~is_alive(stepped.cell)
        THEN Append(w.dead_cell_indexes, index)
        ELSE w.dead_cell_indexes,
     eaten |-> Append(w.eaten, stepped.food)]

\* One pass of the loop of step_cells, for the cell at index, with the result
\* of the cell's step; w is [cells, food, new_cells, dead_cell_indexes, eaten]
\* (eaten records the food each cell ate).
step_one_cell(w, stepped, index) ==
    [cells |-> [w.cells EXCEPT ![index + 1] = stepped.cell],
     food |-> F32Positive_sub(w.food, stepped.food),
     new_cells |-> w.new_cells \o stepped.child,
     dead_cell_indexes |->
        IF ~is_alive(stepped.cell)
        THEN Append(w.dead_cell_indexes, index)
        ELSE w.dead_cell_indexes,
     eaten |-> Append(w.eaten, stepped.food)]

\* The loop of step_cells up to (not including) index n:
\* self.cells.iter_mut().enumerate()
RECURSIVE step_cells_upto(_, _, _, _, _)
step_cells_upto(cells_, food_, environment, mutation_number_source_, n) ==
    IF n = 0
    THEN [cells |-> cells_, food |-> food_, new_cells |-> <<>>,
          dead_cell_indexes |-> <<>>, eaten |-> <<>>]
    ELSE step_one_cell(
            step_cells_upto(cells_, food_, environment, mutation_number_source_, n - 1),
            Cell_step(cells_[n], mutation_number_source_, environment),
            n - 1)

\* (mutant: the children are pushed onto the vector the loop walks, so the
\* loop steps them too)
step_cells_and_newborns(cells_, food_, environment, mutation_number_source_) ==
    LET first == step_cells_upto(cells_, food_, environment, mutation_number_source_,
                                 Len(cells_))
        second == step_cells_upto(first.new_cells, first.food, environment,
                                  mutation_number_source_, Len(first.new_cells))
    IN  [cells |-> first.cells \o second.cells,
         food |-> second.food,
         new_cells |-> second.new_cells,
         dead_cell_indexes |->
            first.dead_cell_indexes \o
            [j \in DOMAIN second.dead_cell_indexes |->
                second.dead_cell_indexes[j] + Len(cells_)],
         eaten |-> first.eaten \o second.eaten]

step_cells(cells_, food_, environment, mutation_number_source_) ==
    step_cells_upto(cells_, food_, environment, mutation_number_source_, Len(cells_))

\* Vec::swap_remove: the element at index is replaced by the last one
swap_remove(v, index) ==
    [i \in 1..(Len(v) - 1) |-> IF i = index + 1 THEN v[Len(v)] ELSE v[i]]

\* (mutant: the indexes are removed lowest first)
RECURSIVE remove_cells_lowest_first(_, _)
remove_cells_lowest_first(cells_, sorted_indexes) ==
    IF sorted_indexes = <<>>
    THEN cells_
    ELSE remove_cells_lowest_first(swap_remove(cells_, sorted_indexes[1]),
                                   Tail(sorted_indexes))

\* remove_cells: for index in sorted_indexes.iter().rev()
RECURSIVE remove_cells(_, _)
remove_cells(cells_, sorted_indexes) ==
    IF sorted_indexes = <<>>
    THEN cells_
    ELSE remove_cells(swap_remove(cells_, sorted_indexes[Len(sorted_indexes)]),
                      SubSeq(sorted_indexes, 1, Len(sorted_indexes) - 1))

\* What World::step computes from the current state, up to the first assert!.
World_step_polled == step_food_sources(food, food_sources)

\* (mutant: the share is computed from the pool as it was before the food
\* sources were polled)
World_step_food_per_cell_before_polling ==
    f32_div(food, F(Len(cells), 1))

World_step_food_per_cell ==
    f32_div(World_step_polled.food, F(Len(cells), 1))

\* food_per_cell: (...).into() is F32Positive::checked
World_step_panics == F32Positive_checked_fails(World_step_food_per_cell)

\* self.cells.append(&mut new_cells); self.remove_cells(&mut dead_cell_indexes)
append_and_remove_cells(cells_, new_cells, dead_cell_indexes) ==
    remove_cells(cells_ \o new_cells, dead_cell_indexes)

\* (mutant: the two counts are returned the other way round)
World_step_returned_swapped(new_cells, dead_cell_indexes) ==
    <<Len(dead_cell_indexes), Len(new_cells)>>

\* (num_added, dead_cell_indexes.len())
World_step_returned(new_cells, dead_cell_indexes) ==
    <<Len(new_cells), Len(dead_cell_indexes)>>

World_step_stepped(polled, environment, stepped) ==
    [cells |-> append_and_remove_cells(stepped.cells, stepped.new_cells,
                                       stepped.dead_cell_indexes),
     food |-> stepped.food,
     food_sources |-> polled.food_sources,
     polled_food |-> polled.food,
     environment |-> environment,
     stepped_cells |-> stepped.cells,
     new_cells |-> stepped.new_cells,
     dead_cell_indexes |-> stepped.dead_cell_indexes,
     eaten |-> stepped.eaten,
     returned |-> World_step_returned(stepped.new_cells, stepped.dead_cell_indexes)]

World_step_polled_with(polled, environment, mutation_number_source_) ==
    World_step_stepped(polled, environment,
        step_cells(cells, polled.food, environment, mutation_number_source_))

World_step_result(mutation_number_source_) ==
    World_step_polled_with(World_step_polled,
                           [food_per_cell |-> World_step_food_per_cell],
                           mutation_number_source_)

(***************************************************************************)
(* The values an initial world is built from.                              *)
(***************************************************************************)
ConstantsTable ==
    <<[create_child_energy |-> F(3, 2),
       energy_yield_from_digestion |-> F(1, 2),
       food_yield_from_eating |-> One,
       health_increase_per_healing_energy |-> F(1, 4),
       health_reduction_from_entropy |-> F(1, 4),
       health_reduction_per_energy_expended |-> F(1, 8),
       attempted_eating_energy_mutation_stdev |-> F(3, 4),
       attempted_healing_energy_mutation_stdev |-> One,
       child_threshold_energy_mutation_stdev |-> F(1, 4),
       child_threshold_food_mutation_stdev |-> F(1, 2)],
      [create_child_energy |-> Zero,
       energy_yield_from_digestion |-> One,
       food_yield_from_eating |-> One,
       health_increase_per_healing_energy |-> One,
       health_reduction_from_entropy |-> Zero,
       health_reduction_per_energy_expended |-> F(1, 2),
       attempted_eating_energy_mutation_stdev |-> Zero,
       attempted_healing_energy_mutation_stdev |-> Zero,
       child_threshold_energy_mutation_stdev |-> Zero,
       child_threshold_food_mutation_stdev |-> Zero]>>

InitParams ==
    {[attempted_eating_energy |-> F(2, 1), attempted_healing_energy |-> One,
      child_threshold_energy |-> F(4, 1), child_threshold_food |-> Zero],
     [attempted_eating_energy |-> F(3, 1), attempted_healing_energy |-> Zero,
      child_threshold_energy |-> F(20, 1), child_threshold_food |-> F(20, 1)],
     [attempted_eating_energy |-> Zero, attempted_healing_energy |-> F(2, 1),
      child_threshold_energy |-> Zero, child_threshold_food |-> One]}

InitEnergies == {F(2, 1), F(10, 1)}

InitHealths == {Zero, One}

InitCellsOf(constants_rc) ==
    {with_health(with_energy(Cell_new(constants_rc, p), e), h) :
        p \in InitParams, e \in InitEnergies, h \in InitHealths}

SeqsUpTo(S, n) == UNION {[1..k -> S] : k \in 0..n}

InitFoods == {Zero, F(4, 1)}

InitFoodSources ==
    {<<>>,
     <<ConstantFoodSource_new(Zero)>>,
     <<ConstantFoodSource_new(F(2, 1)),
       LinearlyGrowingFoodSource_new(One, One)>>}

\* the sources a world is run with (the additive one exists in cell.rs's tests only)
MutationKinds == {"Null", "Random"}

\* the draws of the random source in one tick, in units of stdev
FirstDraws == {F(-2, 1), One}

RetryDraws == {Zero}

\* (mutant: every world draws its mutation numbers at random)
SourcesOf_random(kind) ==
    {RandomMutationNumberSource(<<f, r>>) : f \in FirstDraws, r \in RetryDraws}

SourcesOf(kind) ==
    CASE kind = "Null" -> {NullMutationNumberSource}
      [] kind = "Additive" -> {AdditiveMutationNumberSource}
      [] kind = "Random" ->
            {RandomMutationNumberSource(<<f, r>>) : f \in FirstDraws, r \in RetryDraws}

NoCall == [kind |-> "none"]

NoStep == [kind |-> "none"]

(***************************************************************************)
(* The world: World::new().with_cells(..).with_food(..)                    *)
(* .with_food_sources(..), then any number of World::step calls.           *)
(***************************************************************************)
Init ==
    /\ constants = ConstantsTable
    /\ \E k \in DOMAIN ConstantsTable :
          cells \in SeqsUpTo(InitCellsOf(k), MaxInitCells)
    /\ food \in InitFoods
    /\ food_sources \in InitFoodSources
    /\ mutation_number_source \in MutationKinds
    /\ panicked = FALSE
    /\ ticks = 0
    /\ last = NoStep
    /\ call = NoCall

\* what a World::step that returns does to the world
World_step_returns ==
    \E source \in SourcesOf(mutation_number_source) :
       \E r \in {World_step_result(source)} :
           /\ cells' = r.cells
           /\ food' = r.food
           /\ food_sources' = r.food_sources
           /\ last' = [kind |-> "step",
                       source |-> source,
                       pre_cells |-> cells,
                       pre_food |-> food,
                       pre_food_sources |-> food_sources,
                       polled_food |-> r.polled_food,
                       environment |-> r.environment,
                       stepped_cells |-> r.stepped_cells,
                       new_cells |-> r.new_cells,
                       dead_cell_indexes |-> r.dead_cell_indexes,
                       eaten |-> r.eaten,
                       returned |-> r.returned]

\* what a World::step that fails the assert! of F32Positive::checked does:
\* the program aborts after step_food_sources has run
World_step_aborts ==
    /\ panicked' = TRUE
    /\ \E polled \in {World_step_polled} :
          /\ food' = polled.food
          /\ food_sources' = polled.food_sources
          /\ last' = [kind |-> "panic",
                      pre_cells |-> cells,
                      pre_food |-> food,
                      pre_food_sources |-> food_sources,
                      polled_food |-> polled.food]

\* World::step returns
World_step ==
    /\ ~panicked
    /\ ticks < MaxTicks
    /\ Len(cells) <= MaxCells
    /\ ~World_step_panics
    /\ World_step_returns
    /\ ticks' = ticks + 1
    /\ UNCHANGED <<constants, mutation_number_source, panicked, call>>

\* World::step fails the assert! of F32Positive::checked
World_step_panic ==
    /\ ~panicked
    /\ ticks < MaxTicks
    /\ Len(cells) <= MaxCells
    /\ World_step_panics
    /\ World_step_aborts
    /\ ticks' = ticks + 1
    /\ UNCHANGED <<constants, cells, mutation_number_source, call>>

Next == World_step \/ World_step_panic

Spec == Init /\ [][Next]_vars

(***************************************************************************)
(* budget as a pure function: one call on amounts drawn from AmountSet.    *)
(***************************************************************************)
AmountSet == {F(k, 2) : k \in 0..MaxHalves} \cup {F(5, 1), F(15, 2), F(10, 1)}

InitBudget ==
    /\ constants = ConstantsTable
    /\ cells = <<>>
    /\ food = Zero
    /\ food_sources = <<>>
    /\ mutation_number_source = "Null"
    /\ panicked = FALSE
    /\ ticks = 0
    /\ last = NoStep
    /\ call \in [kind : {"budget"}, available : AmountSet,
                 desired : SeqsUpTo(AmountSet, MaxN), returned : {<<>>}]

\* budget(available, &desired) returns (total, budgeted)
budget_call ==
    /\ call.kind = "budget"
    /\ call.returned = <<>>
    /\ call' = [call EXCEPT !.returned = <<budget(call.available, call.desired)>>]
    /\ UNCHANGED worldVars

NextBudget == budget_call

SpecBudget == InitBudget /\ [][NextBudget]_vars

(***************************************************************************)
(* The end of World::step as a pure function: new_cells are appended to    *)
(* cells and the cells at dead_cell_indexes removed.  cells are cells as   *)
(* step_cells leaves them, dead_cell_indexes are the indexes step_cells    *)
(* has recorded for them (ascending), new_cells are newborns.              *)
(***************************************************************************)
MaxSteppedCells == 3    \* most cells stepped by the tick
MaxNewCells == 2        \* most newborns of the tick

SteppedCellSet ==
    {with_health(with_energy(Cell_new(1, p), e), h) :
        p \in InitParams, e \in {One}, h \in {Zero, F(1, 2)}}

NewCellSet ==
    {with_energy(Cell_new(1, p), F(5, 2)) : p \in InitParams}

\* the indexes step_cells records: those of the cells that are not alive
RECURSIVE dead_indexes_of(_)
dead_indexes_of(cells_) ==
    IF cells_ = <<>> THEN <<>>
    ELSE IF is_alive(cells_[Len(cells_)])
         THEN dead_indexes_of(SubSeq(cells_, 1, Len(cells_) - 1))
         ELSE Append(dead_indexes_of(SubSeq(cells_, 1, Len(cells_) - 1)), Len(cells_) - 1)

InitRemove ==
    /\ constants = ConstantsTable
    /\ cells = <<>>
    /\ food = Zero
    /\ food_sources = <<>>
    /\ mutation_number_source = "Null"
    /\ panicked = FALSE
    /\ ticks = 0
    /\ last = NoStep
    /\ \E cs \in SeqsUpTo(SteppedCellSet, MaxSteppedCells) :
       \E ns \in SeqsUpTo(NewCellSet, MaxNewCells) :
          call = [kind |-> "remove", cells |-> cs, new_cells |-> ns,
                  dead_cell_indexes |-> dead_indexes_of(cs), returned |-> <<>>]

append_and_remove_call ==
    /\ call.kind = "remove"
    /\ call.returned = <<>>
    /\ call' = [call EXCEPT !.returned =
                   <<append_and_remove_cells(call.cells, call.new_cells,
                                             call.dead_cell_indexes)>>]
    /\ UNCHANGED worldVars

NextRemove == append_and_remove_call

SpecRemove == InitRemove /\ [][NextRemove]_vars

(***************************************************************************)
(* Cell::step as a function of the cell, the mutation number source and    *)
(* the environment: one call on a cell built from the values below.        *)
(***************************************************************************)
MaxCellEnergy == 3      \* a cell starts its step with energy 0..MaxCellEnergy, or 10
MaxFoodPerCell == 2     \* food_per_cell is 0..MaxFoodPerCell, or 10

\* ConstantsTable and constants with no food yield from eating
CellStepConstantsTable ==
    ConstantsTable \o
    <<[create_child_energy |-> One,
       energy_yield_from_digestion |-> F(2, 1),
       food_yield_from_eating |-> Zero,
       health_increase_per_healing_energy |-> F(1, 8),
       health_reduction_from_entropy |-> F(1, 8),
       health_reduction_per_energy_expended |-> F(1, 4),
       attempted_eating_energy_mutation_stdev |-> Zero,
       attempted_healing_energy_mutation_stdev |-> Zero,
       child_threshold_energy_mutation_stdev |-> Zero,
       child_threshold_food_mutation_stdev |-> Zero]>>

CellStepParams ==
    InitParams \cup
    {[attempted_eating_energy |-> F(2, 1), attempted_healing_energy |-> F(2, 1),
      child_threshold_energy |-> F(2, 1), child_threshold_food |-> Zero],
     [attempted_eating_energy |-> Zero, attempted_healing_energy |-> Zero,
      child_threshold_energy |-> F(20, 1), child_threshold_food |-> F(20, 1)],
     [attempted_eating_energy |-> One, attempted_healing_energy |-> Zero,
      child_threshold_energy |-> F(2, 1), child_threshold_food |-> F(2, 1)],
     [attempted_eating_energy |-> Zero, attempted_healing_energy |-> Zero,
      child_threshold_energy |-> F(4, 1), child_threshold_food |-> Zero]}

CellStepEnergies == {F(k, 1) : k \in 0..MaxCellEnergy} \cup {F(10, 1)}

CellStepHealths == {Zero, F(1, 4), F(1, 2), One}

CellStepCells ==
    {with_health(with_energy(Cell_new(k, p), e), h) :
        k \in DOMAIN CellStepConstantsTable, p \in CellStepParams,
        e \in CellStepEnergies, h \in CellStepHealths}

\* the sources of main_support.rs and the one of the tests of cell.rs
CellStepSourceKinds == MutationKinds \cup {"Additive"}

CellStepEnvironments ==
    {[food_per_cell |-> f] : f \in {F(k, 1) : k \in 0..MaxFoodPerCell} \cup {F(10, 1)}}

InitCell ==
    /\ constants = CellStepConstantsTable
    /\ cells = <<>>
    /\ food = Zero
    /\ food_sources = <<>>
    /\ mutation_number_source = "Null"
    /\ panicked = FALSE
    /\ ticks = 0
    /\ last = NoStep
    /\ call \in [kind : {"cell_step"}, cell : CellStepCells,
                 source : UNION {SourcesOf(kind) : kind \in CellStepSourceKinds},
                 environment : CellStepEnvironments, returned : {<<>>}]

\* cell.step(&mut mutation_number_source, &environment) returns (child, food)
Cell_step_call ==
    /\ call.kind = "cell_step"
    /\ call.returned = <<>>
    /\ call' = [call EXCEPT !.returned =
                   <<Cell_step(call.cell, call.source, call.environment)>>]
    /\ UNCHANGED worldVars

NextCell == Cell_step_call

SpecCell == InitCell /\ [][NextCell]_vars

(***************************************************************************)
(* MutationNumberSource::mutate as a function of the source, the value and *)
(* the stdev: one call.  A random source holds up to MaxDraws draws, of    *)
(* any sign; the call returns when one of them gives a sample >= 0.        *)
(***************************************************************************)
MaxDraws == 3           \* most draws a random source holds

DrawSet == {F(-2, 1), F(-1, 1), Zero, One}

MutateValues == {Zero, F(1, 2), One, F(2, 1)}

MutateStdevs == {Zero, F(1, 2), One}

MutateSources ==
    {NullMutationNumberSource, AdditiveMutationNumberSource} \cup
    {RandomMutationNumberSource(draws) :
        draws \in UNION {[1..k -> DrawSet] : k \in 1..MaxDraws}}

InitMutate ==
    /\ constants = ConstantsTable
    /\ cells = <<>>
    /\ food = Zero
    /\ food_sources = <<>>
    /\ mutation_number_source = "Null"
    /\ panicked = FALSE
    /\ ticks = 0
    /\ last = NoStep
    /\ call \in [kind : {"mutate"}, source : MutateSources, value : MutateValues,
                 stdev : MutateStdevs, returned : {<<>>}]

\* mutation_number_source.mutate(value, stdev) returns
mutate_call ==
    /\ call.kind = "mutate"
    /\ call.returned = <<>>
    /\ \E r \in {MutationNumberSource_mutate_returns(call.source, call.value, call.stdev)} :
          /\ r # <<>>
          /\ call' = [call EXCEPT !.returned = r]
    /\ UNCHANGED worldVars

NextMutate == mutate_call

SpecMutate == InitMutate /\ [][NextMutate]_vars

(***************************************************************************)
(* A food source on its own: food_this_step is called up to MaxCalls times *)
(* on a source; call holds the source as constructed (initial), the source *)
(* as it is now and the amounts returned so far.                           *)
(***************************************************************************)
MaxCalls == 4           \* most calls of food_this_step on one source

FoodAmounts == {Zero, F(1, 2), One, F(10, 1), F(100, 1)}

FoodSourceSet ==
    {ConstantFoodSource_new(a) : a \in FoodAmounts} \cup
    {LinearlyGrowingFoodSource_new(a, b) : a \in FoodAmounts, b \in FoodAmounts}

InitFood ==
    /\ constants = ConstantsTable
    /\ cells = <<>>
    /\ food = Zero
    /\ food_sources = <<>>
    /\ mutation_number_source = "Null"
    /\ panicked = FALSE
    /\ ticks = 0
    /\ last = NoStep
    /\ \E source \in FoodSourceSet :
          call = [kind |-> "food", initial |-> source, source |-> source,
                  returned |-> <<>>]

\* source.food_this_step() returns
food_this_step_call ==
    /\ call.kind = "food"
    /\ Len(call.returned) < MaxCalls
    /\ \E r \in {food_this_step(call.source)} :
          call' = [call EXCEPT !.source = r.self,
                               !.returned = Append(@, r.result)]
    /\ UNCHANGED worldVars

NextFood == food_this_step_call

SpecFood == InitFood /\ [][NextFood]_vars

(***************************************************************************)
(* main_support.rs: run(world, steps).  call holds the locals of run: the  *)
(* step budget, the step counter and whether the loop has been left.  The  *)
(* loop takes its mutation numbers from a RandomMutationNumberSource.      *)
(***************************************************************************)
RunCellsOf(constants_rc) ==
    {with_health(with_energy(Cell_new(constants_rc, p), F(2, 1)), h) :
        p \in InitParams, h \in InitHealths}

InitRun ==
    /\ constants = ConstantsTable
    /\ \E k \in DOMAIN ConstantsTable :
          cells \in SeqsUpTo(RunCellsOf(k), MaxInitCells)
    /\ food \in InitFoods
    /\ food_sources \in InitFoodSources
    /\ mutation_number_source = "Random"
    /\ panicked = FALSE
    /\ ticks = 0
    /\ last = NoStep
    /\ call \in [kind : {"run"}, steps : 0..MaxTicks, step : {0}, done : {FALSE}]

\* (mutant: the loop goes on while steps are left)
run_while_steps_left(step, steps, num_cells) == step < steps

\* while step < steps && world.num_cells() > 0
run_loop_condition(step, steps, num_cells) == step < steps /\ num_cells > 0

\* one pass of the loop: world.step(..); step += 1
run_iteration ==
    /\ call.kind = "run"
    /\ ~call.done
    /\ ~panicked
    /\ run_loop_condition(call.step, call.steps, Len(cells))
    /\ IF World_step_panics
       THEN World_step_aborts /\ UNCHANGED <<cells, call>>
       ELSE /\ World_step_returns
            /\ call' = [call EXCEPT !.step = @ + 1]
            /\ UNCHANGED panicked
    /\ ticks' = ticks + 1
    /\ UNCHANGED <<constants, mutation_number_source>>

\* the loop condition is false: run returns
run_exit ==
    /\ call.kind = "run"
    /\ ~call.done
    /\ ~panicked
    /\ ~run_loop_condition(call.step, call.steps, Len(cells))
    /\ call' = [call EXCEPT !.done = TRUE]
    /\ UNCHANGED worldVars

NextRun == run_iteration \/ run_exit

\* a pass of the loop can be made: World::step is defined for every world (it
\* returns or it fails), so this is ENABLED <<run_iteration>>_vars
run_can_iterate ==
    /\ call.kind = "run"
    /\ ~call.done
    /\ ~panicked
    /\ run_loop_condition(call.step, call.steps, Len(cells))

\* The program keeps running: weak fairness of run_exit and of run_iteration,
\* the latter written out with run_can_iterate for its ENABLED.
SpecRun ==
    /\ InitRun
    /\ [][NextRun]_vars
    /\ WF_vars(run_exit)
    /\ ([]<>(~run_can_iterate) \/ []<><<run_iteration>>_vars)

(***************************************************************************)
(* Two worlds run side by side.  The first is the world of the variables   *)
(* cells, food and food_sources; call holds the second: its cells, food    *)
(* and food sources, what its last World::step returned and whether it has *)
(* failed.  Both are built equal, and every tick steps both, each with a   *)
(* mutation source of its own of the kind mutation_number_source.          *)
(***************************************************************************)
TwinSourceKinds == MutationKinds \cup {"Additive"}

InitTwin ==
    /\ constants = ConstantsTable
    /\ \E k \in DOMAIN ConstantsTable :
          cells \in SeqsUpTo(InitCellsOf(k), MaxInitCells)
    /\ food \in InitFoods
    /\ food_sources \in InitFoodSources
    /\ mutation_number_source \in TwinSourceKinds
    /\ panicked = FALSE
    /\ ticks = 0
    /\ last = NoStep
    /\ call = [kind |-> "twin", cells |-> cells, food |-> food,
               food_sources |-> food_sources, returned |-> <<>>,
               panicked |-> FALSE]

\* World::step on the world w = [cells, food, food_sources, ..], from the
\* polled food sources on
World_step_of_polled(w, polled, food_per_cell, mutation_number_source_) ==
    IF F32Positive_checked_fails(food_per_cell)
    THEN [panicked |-> TRUE, cells |-> w.cells, food |-> polled.food,
          food_sources |-> polled.food_sources]
    ELSE World_step_stepped(polled, [food_per_cell |-> food_per_cell],
             step_cells(w.cells, polled.food, [food_per_cell |-> food_per_cell],
                        mutation_number_source_))

World_step_of_with(w, polled, mutation_number_source_) ==
    World_step_of_polled(w, polled, f32_div(polled.food, F(Len(w.cells), 1)),
                         mutation_number_source_)

\* World::step on the world w: the world it leaves, with what it returned
World_step_of(w, mutation_number_source_) ==
    World_step_of_with(w, step_food_sources(w.food, w.food_sources),
                       mutation_number_source_)

\* the World::step that gave r failed its assert!
World_step_failed(r) == "panicked" \in DOMAIN r

\* the second world after its World::step gave r
twin_stepped(w, r) ==
    [kind |-> "twin", cells |-> r.cells, food |-> r.food,
     food_sources |-> r.food_sources,
     returned |-> IF World_step_failed(r) THEN w.returned ELSE r.returned,
     panicked |-> World_step_failed(r)]

\* both worlds make their next World::step
twin_step ==
    /\ call.kind = "twin"
    /\ ~panicked
    /\ ~call.panicked
    /\ ticks < MaxTicks
    /\ Len(cells) <= MaxCells
    /\ Len(call.cells) <= MaxCells
    /\ IF World_step_panics
       THEN World_step_aborts /\ UNCHANGED cells
       ELSE World_step_returns /\ UNCHANGED panicked
    /\ \E source \in SourcesOf(mutation_number_source) :
          \E r \in {World_step_of(call, source)} :
              call' = twin_stepped(call, r)
    /\ ticks' = ticks + 1
    /\ UNCHANGED <<constants, mutation_number_source>>

NextTwin == twin_step

SpecTwin == InitTwin /\ [][NextTwin]_vars

(***************************************************************************)
(* number_types.rs: the constructors of the three number types, called on  *)
(* raw f32 values.  call holds the value, a scalar and a rate, and what    *)
(* each constructor and the product scalar * rate gave.                    *)
(***************************************************************************)
\* what a constructor that asserts gives: the failure, or the value built
Checked(fails, value) ==
    IF fails THEN [fails |-> TRUE] ELSE [fails |-> FALSE, value |-> value]

F32Positive_checked(value) == Checked(F32Positive_checked_fails(value), value)

\* impl From<f32> for F32Positive
F32Positive_from(num) == F32Positive_checked(num)

F32ZeroToOne_checked(value) == Checked(F32ZeroToOne_checked_fails(value), value)

\* impl From<f32> for F32ZeroToOne
F32ZeroToOne_from(num) == F32ZeroToOne_checked(num)

\* assert!((0.0..=1.0).contains(&value)) of F32ZeroToOnePerF32Positive::checked fails
F32ZeroToOnePerF32Positive_checked_fails(value) ==
    ~(f32_ge(value, Zero) /\ f32_le(value, One))

F32ZeroToOnePerF32Positive_checked(value) ==
    Checked(F32ZeroToOnePerF32Positive_checked_fails(value), value)

\* impl From<f32> for F32ZeroToOnePerF32Positive
F32ZeroToOnePerF32Positive_from(num) == F32ZeroToOnePerF32Positive_checked(num)

F32ZeroToOnePerF32Positive_clipped(value) == f32_min(f32_max(value, Zero), One)

\* the raw values: halves around the two bounds, the infinities and NaN
RawValues ==
    {F(k, 2) : k \in -MaxHalves..MaxHalves} \cup {Infinity, f32_neg(Infinity), NaN}

\* F32Positive values
Scalars == {F(k, 2) : k \in 0..MaxHalves} \cup {Infinity}

\* F32ZeroToOnePerF32Positive values
Rates == {Zero, F(1, 2), One}

InitNumber ==
    /\ constants = ConstantsTable
    /\ cells = <<>>
    /\ food = Zero
    /\ food_sources = <<>>
    /\ mutation_number_source = "Null"
    /\ panicked = FALSE
    /\ ticks = 0
    /\ last = NoStep
    /\ call \in [kind : {"number"}, value : RawValues, scalar : Scalars,
                  rate : Rates, returned : {<<>>}]

\* every constructor is called on call.value; scalar * rate and rate * scalar
number_call ==
    /\ call.kind = "number"
    /\ call.returned = <<>>
    /\ call' = [call EXCEPT !.returned =
          <<[F32Positive_checked |-> F32Positive_checked(call.value),
             F32Positive_from |-> F32Positive_from(call.value),
             F32Positive_clipped |-> F32Positive_clipped(call.value),
             F32ZeroToOne_checked |-> F32ZeroToOne_checked(call.value),
             F32ZeroToOne_from |-> F32ZeroToOne_from(call.value),
             F32ZeroToOne_clipped |-> F32ZeroToOne_clipped(call.value),
             F32ZeroToOnePerF32Positive_checked |->
                 F32ZeroToOnePerF32Positive_checked(call.value),
             F32ZeroToOnePerF32Positive_from |->
                 F32ZeroToOnePerF32Positive_from(call.value),
             F32ZeroToOnePerF32Positive_clipped |->
                 F32ZeroToOnePerF32Positive_clipped(call.value),
             scalar_mul_rate |-> Rate_mul(call.scalar, call.rate),
             rate_mul_scalar |-> Rate_mul(call.rate, call.scalar)]>>]
    /\ UNCHANGED worldVars

NextNumber == number_call

SpecNumber == InitNumber /\ [][NextNumber]_vars

(***************************************************************************)
(* World::step on worlds of weak cells: cells that start a tick at health  *)
(* 0 or lose their health in it, among them cells that heal, cells that    *)
(* eat and cells that reproduce.                                           *)
(***************************************************************************)
WeakParams ==
    InitParams \cup
    {[attempted_eating_energy |-> One, attempted_healing_energy |-> Zero,
      child_threshold_energy |-> Zero, child_threshold_food |-> Zero]}

WeakHealths == {Zero, F(1, 2), One}

WeakCellsOf(constants_rc) ==
    {with_health(with_energy(Cell_new(constants_rc, p), e), h) :
        p \in WeakParams, e \in InitEnergies, h \in WeakHealths}

InitWeak ==
    /\ constants = CellStepConstantsTable
    /\ \E k \in DOMAIN CellStepConstantsTable :
          cells \in SeqsUpTo(WeakCellsOf(k), MaxInitCells)
    /\ food \in InitFoods
    /\ food_sources \in {<<>>, <<ConstantFoodSource_new(F(2, 1))>>}
    /\ mutation_number_source = "Null"
    /\ panicked = FALSE
    /\ ticks = 0
    /\ last = NoStep
    /\ call = NoCall

SpecWeak == InitWeak /\ [][Next]_vars

(***************************************************************************)
(* The health of one cell over its ticks, in the arithmetic of f32.  A     *)
(* health is a whole number of units of 2^-30: every f32 in [2^-7, 1] is   *)
(* such a number, and so is the exact difference of two of them.  An f32   *)
(* keeps 24 significant bits, so a difference is rounded to the nearest    *)
(* number with 24 significant bits, a tie going to the even one.           *)
(* call holds the cell's health_reduction_from_entropy, its health before  *)
(* the first tick, before the last tick and now, the number of ticks made, *)
(* and whether the cell is still in the population.  The cell is one that  *)
(* gets no healing: heal adds 0.0, which changes nothing.                  *)
(***************************************************************************)
F32_ONE == 2^30             \* 1.0 in units

F32_EPSILON_HALF == 2^6     \* 2^-24, the spacing of the f32 values in [0.5, 1]

\* the spacing of the f32 values around x units
RECURSIVE f32_spacing(_)
f32_spacing(x) == IF x < 2^24 THEN 1 ELSE 2 * f32_spacing(x \div 2)

\* x >= 0 rounded to a multiple of spacing, ties to even
f32_rounded_to(x, spacing) ==
    IF 2 * (x % spacing) < spacing THEN x - (x % spacing)
    ELSE IF 2 * (x % spacing) > spacing THEN x - (x % spacing) + spacing
    ELSE IF (x \div spacing) % 2 = 0 THEN x - (x % spacing)
    ELSE x - (x % spacing) + spacing

f32_rounded(x) == f32_rounded_to(x, f32_spacing(x))

\* self.value() - other.value() in f32
f32_sub_rounded(a, b) ==
    IF a >= b THEN f32_rounded(a - b) ELSE 0 - f32_rounded(b - a)

\* value.max(0.0).min(1.0)
F32ZeroToOne_clipped_rounded(value) ==
    IF value < 0 THEN 0 ELSE IF value > F32_ONE THEN F32_ONE ELSE value

\* (mutant: the amount is added)
F32ZeroToOne_sub_assign_adding(self, other) ==
    F32ZeroToOne_clipped_rounded(f32_rounded(self + other))

\* impl SubAssign for F32ZeroToOne
F32ZeroToOne_sub_assign(self, other) ==
    F32ZeroToOne_clipped_rounded(f32_sub_rounded(self, other))

\* the health after Cell::step of a cell that gets no healing: expend_energy
\* takes damage = energy * health_reduction_per_energy_expended from it,
\* entropy takes health_reduction_from_entropy
Cell_step_health(health, damage, health_reduction_from_entropy) ==
    F32ZeroToOne_sub_assign(F32ZeroToOne_sub_assign(health, damage),
                            health_reduction_from_entropy)

MaxDecayTicks == 6      \* most ticks of one cell

\* health_reduction_from_entropy: 1/8, 1/4, 3/8, 1/2, 1, 2^-24; the f32 values
\* of 0.1, 0.2 and 0.3; and 2^-25
DecayRates ==
    {2^27, 2^28, 3 * 2^27, 2^29, 2^30, 2^6,
     13421773 * 2^3, 13421773 * 2^4, 10066330 * 2^5, 2^5}

\* the health before the first tick: 1, 3/4, 1/2, and the f32 value of 0.2
DecayHealths == {2^30, 3 * 2^28, 2^29, 13421773 * 2^4}

\* what expend_energy takes from the health in a tick: 0, 2^-24, 1/8
DecayDamages == {0, 2^6, 2^27}

InitDecay ==
    /\ constants = ConstantsTable
    /\ cells = <<>>
    /\ food = Zero
    /\ food_sources = <<>>
    /\ mutation_number_source = "Null"
    /\ panicked = FALSE
    /\ ticks = 0
    /\ last = NoStep
    /\ \E e \in DecayRates, h \in DecayHealths :
          call = [kind |-> "decay", health_reduction_from_entropy |-> e,
                  initial |-> h, before |-> h, health |-> h,
                  damages |-> <<>>, removed |-> FALSE]

\* one tick of the world: the cell is stepped, and removed if its health is 0
decay_tick ==
    /\ call.kind = "decay"
    /\ ~call.removed
    /\ Len(call.damages) < MaxDecayTicks
    /\ \E damage \in DecayDamages :
          \E h \in {Cell_step_health(call.health, damage,
                                     call.health_reduction_from_entropy)} :
              call' = [call EXCEPT !.before = call.health,
                                   !.health = h,
                                   !.damages = Append(@, damage),
                                   !.removed = ~(h > 0)]
    /\ UNCHANGED worldVars

NextDecay == decay_tick

SpecDecay == InitDecay /\ [][NextDecay]_vars

(***************************************************************************)
(* Helpers of the properties below.                                        *)
(***************************************************************************)
Range(s) == {s[i] : i \in DOMAIN s}

\* the bag of the elements of a sequence
BagOfSeq(s) == [x \in Range(s) |-> Cardinality({i \in DOMAIN s : s[i] = x})]

\* the sum a + b + ..., exact
RECURSIVE ExactSum(_)
ExactSum(s) == IF s = <<>> THEN Zero ELSE f32_add(s[1], ExactSum(Tail(s)))

IsFinite(x) == x.d > 0

InRange01(x) == f32_ge(x, Zero) /\ f32_le(x, One)

Stepped == last.kind = "step"

\* the 0-based indexes of the cells of s with health 0
ZeroHealthIndexes(s) == {i - 1 : i \in {j \in DOMAIN s : s[j].state.health = Zero}}

\* what the step of the i-th cell of the last tick's population gives, on its own
LastCellStep(i) == Cell_step(last.pre_cells[i], last.source, last.environment)

RECURSIVE LastChildrenUpTo(_)
LastChildrenUpTo(n) ==
    IF n = 0 THEN <<>> ELSE LastChildrenUpTo(n - 1) \o LastCellStep(n).child

(***************************************************************************)
(* C1: in every reachable state every cell of the population, every cell   *)
(* as it was right after its step and every newborn has energy >= 0 and    *)
(* 0 <= health <= 1.                                                       *)
(***************************************************************************)
CellInBounds(c) ==
    /\ IsFinite(c.state.energy)
    /\ f32_ge(c.state.energy, Zero)
    /\ InRange01(c.state.health)

C1_EnergyAndHealthInBounds ==
    /\ \A i \in DOMAIN cells : CellInBounds(cells[i])
    /\ Stepped =>
          /\ \A i \in DOMAIN last.stepped_cells : CellInBounds(last.stepped_cells[i])
          /\ \A i \in DOMAIN last.new_cells : CellInBounds(last.new_cells[i])

\* a tick in which a cell's health was clipped at 0, a newborn's energy was
\* clipped at 0 and a cell with health 0 was healed
C1_Witness ==
    /\ Stepped
    /\ \E i \in DOMAIN last.stepped_cells : last.stepped_cells[i].state.health = Zero
    /\ \E i \in DOMAIN last.new_cells : last.new_cells[i].state.energy = Zero
    /\ \E i \in DOMAIN last.stepped_cells :
          /\ last.pre_cells[i].state.health = Zero
          /\ f32_gt(last.stepped_cells[i].state.health, Zero)

(***************************************************************************)
(* C2: World.step on a world with no cells completes without failure for   *)
(* every food pool (0 included) and any food sources: no cell is           *)
(* processed, the population stays empty, (0, 0) is returned and the pool  *)
(* is the previous pool plus the yields of the sources.                    *)
(***************************************************************************)
RECURSIVE Yields(_)
Yields(sources) ==
    IF sources = <<>> THEN <<>>
    ELSE <<food_this_step(sources[1]).result>> \o Yields(Tail(sources))

C2_EmptyWorldStepCompletes ==
    (last.kind # "none" /\ last.pre_cells = <<>>) =>
        /\ ~panicked
        /\ last.kind = "step"
        /\ cells = <<>>
        /\ last.returned = <<0, 0>>
        /\ last.stepped_cells = <<>>
        /\ food = f32_add(last.pre_food, ExactSum(Yields(last.pre_food_sources)))

(***************************************************************************)
(* C3: a cell is removed by World.step exactly when its health after its   *)
(* own step of that tick is 0 (its energy plays no part); so after every   *)
(* World.step that returns, every cell of the population has health > 0.   *)
(***************************************************************************)
C3_RemovedIffHealthZero ==
    Stepped =>
        /\ Range(last.dead_cell_indexes) = ZeroHealthIndexes(last.stepped_cells)
        /\ Len(last.dead_cell_indexes) = Cardinality(ZeroHealthIndexes(last.stepped_cells))
        /\ \A i \in DOMAIN cells : f32_gt(cells[i].state.health, Zero)
        /\ \A i \in DOMAIN last.stepped_cells :
              f32_gt(last.stepped_cells[i].state.health, Zero) =>
                  \E j \in DOMAIN cells : cells[j] = last.stepped_cells[i]
        /\ Len(cells) = Len(last.stepped_cells) + Len(last.new_cells)
                           - Cardinality(ZeroHealthIndexes(last.stepped_cells))

\* a tick that removed a cell with energy left and kept a cell whose energy
\* reached 0
C3_Witness ==
    /\ Stepped
    /\ \E i \in DOMAIN last.stepped_cells :
          /\ last.stepped_cells[i].state.health = Zero
          /\ f32_gt(last.stepped_cells[i].state.energy, Zero)
    /\ \E i \in DOMAIN last.stepped_cells :
          /\ last.stepped_cells[i].state.energy = Zero
          /\ f32_gt(last.pre_cells[i].state.energy, Zero)
          /\ f32_gt(last.stepped_cells[i].state.health, Zero)
          /\ \E j \in DOMAIN cells : cells[j] = last.stepped_cells[i]

(***************************************************************************)
(* C4: the unordered removal removes exactly the cells recorded dead: for  *)
(* every pattern of dead indexes and every number of newborns, the bag of  *)
(* cells after it is the bag of the cells not recorded dead plus the bag   *)
(* of the newborns.                                                        *)
(***************************************************************************)
Removed == call.kind = "remove" /\ call.returned # <<>>

\* the cells of the call that are not recorded dead, in order
RECURSIVE KeptUpTo(_)
KeptUpTo(n) ==
    IF n = 0 THEN <<>>
    ELSE IF (n - 1) \in Range(call.dead_cell_indexes)
         THEN KeptUpTo(n - 1)
         ELSE Append(KeptUpTo(n - 1), call.cells[n])

C4_RemovalKeepsSurvivorsAndNewborns ==
    Removed =>
        /\ BagOfSeq(call.returned[1]) =
              BagOfSeq(KeptUpTo(Len(call.cells)) \o call.new_cells)
        /\ Len(call.returned[1]) =
              Len(call.cells) + Len(call.new_cells) - Len(call.dead_cell_indexes)

\* the first and the last cell dead, a survivor between them and two newborns
C4_Witness ==
    /\ Removed
    /\ Len(call.cells) = 3
    /\ call.dead_cell_indexes = <<0, 2>>
    /\ Len(call.new_cells) = 2
    /\ Len(call.returned[1]) = 3

(***************************************************************************)
(* C5: World.step returns (births, deaths): births is the number of cells  *)
(* whose step returned an offspring, deaths the number of cells removed,   *)
(* and the population after the tick is the one before + births - deaths.  *)
(***************************************************************************)
C5_ReturnsBirthsAndDeaths ==
    Stepped =>
        /\ last.returned[1] =
              Cardinality({i \in DOMAIN last.pre_cells : LastCellStep(i).child # <<>>})
        /\ last.returned[2] =
              Len(last.stepped_cells) + Len(last.new_cells) - Len(cells)
        /\ Len(cells) = Len(last.pre_cells) + last.returned[1] - last.returned[2]

\* a tick with two births and one death
C5_Witness ==
    /\ Stepped
    /\ last.returned = <<2, 1>>
    /\ Len(last.pre_cells) = 3

(***************************************************************************)
(* C6: the offspring of a tick take no part in it: exactly the cells of    *)
(* the population at the start of the tick are stepped, eat and are        *)
(* counted in the divisor of the share; no newborn is recorded dead; and   *)
(* at the end of the tick each newborn is in the population with the       *)
(* state its parent's step created it with.                                *)
(***************************************************************************)
C6_NewbornsTakeNoPart ==
    Stepped =>
        /\ Len(last.stepped_cells) = Len(last.pre_cells)
        /\ Len(last.eaten) = Len(last.pre_cells)
        /\ \A i \in DOMAIN last.pre_cells :
              /\ last.stepped_cells[i] = LastCellStep(i).cell
              /\ last.eaten[i] = LastCellStep(i).food
        /\ last.pre_cells # <<>> =>
              last.environment.food_per_cell =
                  f32_div(last.polled_food, F(Len(last.pre_cells), 1))
        /\ food = F32Positive_clipped(f32_sub(last.polled_food, ExactSum(last.eaten)))
        /\ \A j \in DOMAIN last.dead_cell_indexes :
              last.dead_cell_indexes[j] < Len(last.pre_cells)
        /\ last.new_cells = LastChildrenUpTo(Len(last.pre_cells))
        /\ \A j \in DOMAIN last.new_cells :
              /\ last.new_cells[j].state.health = One
              /\ BagOfSeq(cells)[last.new_cells[j]] >= BagOfSeq(last.new_cells)[last.new_cells[j]]

\* a tick with a newborn, in which a cell ate and a cell died, followed by a
\* state in which the newborn is in the population
C6_Witness ==
    /\ Stepped
    /\ Len(last.new_cells) >= 1
    /\ Len(last.dead_cell_indexes) >= 1
    /\ \E i \in DOMAIN last.eaten : f32_gt(last.eaten[i], Zero)
    /\ \E j \in DOMAIN cells : cells[j] = last.new_cells[1]

(***************************************************************************)
(* C7: budget with sum(desired) <= available grants every request in full  *)
(* and returns the sum of the desired amounts as the total.                *)
(***************************************************************************)
Returned == call.kind = "budget" /\ call.returned # <<>>

C7_BudgetGrantsInFull ==
    (Returned /\ f32_le(ExactSum(call.desired), call.available)) =>
        /\ call.returned[1].budgeted = call.desired
        /\ call.returned[1].total = ExactSum(call.desired)

\* a call with three requests and more available than their sum
C7_Witness ==
    /\ Returned
    /\ Len(call.desired) = 3
    /\ \A i \in DOMAIN call.desired : f32_gt(call.desired[i], Zero)
    /\ f32_lt(ExactSum(call.desired), call.available)

(***************************************************************************)
(* C8: budget with sum(desired) > available grants each request            *)
(* desired[i] * (available / sum(desired)) and returns available as the    *)
(* total; available 7.5 and desired [10, 5] give 7.5 and [5, 2.5].         *)
(***************************************************************************)
C8_BudgetScalesProportionally ==
    (Returned /\ f32_gt(ExactSum(call.desired), call.available)) =>
        /\ Len(call.returned[1].budgeted) = Len(call.desired)
        /\ \A i \in DOMAIN call.desired :
              call.returned[1].budgeted[i] =
                  f32_mul(call.desired[i],
                          f32_div(call.available, ExactSum(call.desired)))
        /\ call.returned[1].total = call.available

\* the example of the specification
C8_Witness ==
    /\ Returned
    /\ call.available = F(15, 2)
    /\ call.desired = <<F(10, 1), F(5, 1)>>
    /\ call.returned[1] = [total |-> F(15, 2), budgeted |-> <<F(5, 1), F(5, 2)>>]

(***************************************************************************)
(* C9: for every available >= 0 and desired amounts >= 0, the granted      *)
(* amounts sum to at most available, each is at most the desired amount,   *)
(* and the returned total is the sum of the granted amounts.               *)
(***************************************************************************)
C9_BudgetNeverOverspends ==
    Returned =>
        /\ Len(call.returned[1].budgeted) = Len(call.desired)
        /\ f32_le(ExactSum(call.returned[1].budgeted), call.available)
        /\ \A i \in DOMAIN call.desired :
              /\ f32_ge(call.returned[1].budgeted[i], Zero)
              /\ f32_le(call.returned[1].budgeted[i], call.desired[i])
        /\ call.returned[1].total = ExactSum(call.returned[1].budgeted)

\* a call scaled down to amounts that are not multiples of 1/2
C9_Witness ==
    /\ Returned
    /\ call.available = One
    /\ call.desired = <<One, F(1, 2), F(3, 2)>>
    /\ call.returned[1].budgeted = <<F(1, 3), F(1, 6), F(1, 2)>>

(***************************************************************************)
(* C10: budget with a desired sum of exactly 0 returns total 0 and every   *)
(* amount 0, dividing nothing by zero, for every available >= 0.           *)
(***************************************************************************)
C10_BudgetOfZeroDesired ==
    (Returned /\ ExactSum(call.desired) = Zero) =>
        /\ call.returned[1].total = Zero
        /\ Len(call.returned[1].budgeted) = Len(call.desired)
        /\ \A i \in DOMAIN call.desired : call.returned[1].budgeted[i] = Zero

\* a call with nothing available and nothing desired by three requests
C10_Witness ==
    /\ Returned
    /\ call.available = Zero
    /\ call.desired = <<Zero, Zero, Zero>>

(***************************************************************************)
(* C11: budget is proportional and independent of order: permuting the     *)
(* desired amounts permutes the granted amounts the same way and leaves    *)
(* the total unchanged, and within one call every request with a positive  *)
(* desired amount is granted the same fraction of it.                      *)
(***************************************************************************)
Permuted(s, p) == [i \in DOMAIN s |-> s[p[i]]]

CellStepped == call.kind = "cell_step" /\ call.returned # <<>>

\* the constants of the cell of the call
CallConstants == constants[call.cell.constants]

\* the allocation over (reproduction threshold, eating, healing) and the one
\* over (eating, healing), each against the energy at the start of the step
ThreeWayBudget ==
    budget(call.cell.state.energy,
           <<call.cell.params.child_threshold_energy,
             call.cell.params.attempted_eating_energy,
             call.cell.params.attempted_healing_energy>>)

TwoWayBudget ==
    budget(call.cell.state.energy,
           <<call.cell.params.attempted_eating_energy,
             call.cell.params.attempted_healing_energy>>)

\* the energy committed by the step: reproduction + eating + healing
Committed ==
    ExactSum(<<call.returned[1].budgeted_energies.reproduction,
               call.returned[1].budgeted_energies.eating,
               call.returned[1].budgeted_energies.healing>>)

(***************************************************************************)
(* C12: Cell.step returns an offspring if and only if the reproduction     *)
(* amount granted by the three-way budget is >= child_threshold_energy and *)
(* food_per_cell is >= child_threshold_food.                               *)
(***************************************************************************)
C12_OffspringIffBothThresholdsMet ==
    CellStepped =>
        /\ Len(call.returned[1].child) <= 1
        /\ (call.returned[1].child # <<>>) <=>
              (/\ f32_ge(ThreeWayBudget.budgeted[1],
                         call.cell.params.child_threshold_energy)
               /\ f32_ge(call.environment.food_per_cell,
                         call.cell.params.child_threshold_food))

\* the reproduction amount is granted in full but the food is short of its
\* threshold: no offspring
C12_Witness ==
    /\ CellStepped
    /\ f32_gt(call.cell.params.child_threshold_energy, Zero)
    /\ ThreeWayBudget.budgeted[1] = call.cell.params.child_threshold_energy
    /\ f32_lt(call.environment.food_per_cell, call.cell.params.child_threshold_food)
    /\ f32_gt(call.environment.food_per_cell, Zero)
    /\ call.returned[1].child = <<>>

(***************************************************************************)
(* C13: when a step returns no offspring, reproduction is granted 0 and    *)
(* eating and healing get the amounts of the two-way budget over (eating,  *)
(* healing) against the full energy at the start of the step; these are    *)
(* the amounts the rest of the step uses.                                  *)
(***************************************************************************)
C13_NoOffspringRebudgetsEatingAndHealing ==
    (CellStepped /\ call.returned[1].child = <<>>) =>
        /\ call.returned[1].budgeted_energies =
              [reproduction |-> Zero,
               eating |-> TwoWayBudget.budgeted[1],
               healing |-> TwoWayBudget.budgeted[2]]
        /\ call.returned[1].total_budgeted = TwoWayBudget.total
        /\ call.returned[1].expended.state.energy =
              F32Positive_clipped(f32_sub(call.cell.state.energy, TwoWayBudget.total))
        /\ call.returned[1].food =
              f32_min(f32_mul(TwoWayBudget.budgeted[1],
                              CallConstants.food_yield_from_eating),
                      call.environment.food_per_cell)
        /\ call.returned[1].cell.state.health =
              F32ZeroToOne_clipped(
                  f32_add(call.returned[1].aged.state.health,
                          F32ZeroToOne_clipped(
                              f32_mul(TwoWayBudget.budgeted[2],
                                      CallConstants.health_increase_per_healing_energy))))

\* the example: energy 2 and desires 2, 2, 2 give eating 1, healing 1, no
\* offspring and final energy 0
C13_Witness ==
    /\ CellStepped
    /\ call.cell.state.energy = F(2, 1)
    /\ call.cell.params.child_threshold_energy = F(2, 1)
    /\ call.cell.params.attempted_eating_energy = F(2, 1)
    /\ call.cell.params.attempted_healing_energy = F(2, 1)
    /\ call.returned[1].child = <<>>
    /\ call.returned[1].budgeted_energies =
          [reproduction |-> Zero, eating |-> One, healing |-> One]
    /\ call.returned[1].cell.state.energy = Zero

(***************************************************************************)
(* C14: in every Cell.step, with or without an offspring, the total        *)
(* committed energy (reproduction + eating + healing as budgeted) is <=    *)
(* the energy at the start of the step, so the clip at 0 of                *)
(* energy -= total changes nothing.                                        *)
(***************************************************************************)
C14_CommittedWithinEnergy ==
    CellStepped =>
        /\ call.returned[1].total_budgeted = Committed
        /\ f32_le(Committed, call.cell.state.energy)
        /\ call.returned[1].expended.state.energy =
              f32_sub(call.cell.state.energy, call.returned[1].total_budgeted)

\* a step with an offspring whose desires exceed its energy: all of the
\* energy is committed
C14_Witness ==
    /\ CellStepped
    /\ call.returned[1].child # <<>>
    /\ f32_gt(call.cell.state.energy, Zero)
    /\ f32_gt(ExactSum(<<call.cell.params.child_threshold_energy,
                         call.cell.params.attempted_eating_energy,
                         call.cell.params.attempted_healing_energy>>),
              call.cell.state.energy)
    /\ call.returned[1].total_budgeted = call.cell.state.energy
    /\ call.returned[1].expended.state.energy = Zero

(***************************************************************************)
(* C15: whenever a step returns an offspring, create_child_energy, the     *)
(* amount subtracted from the budgeted reproduction amount to give the     *)
(* offspring's energy, is no larger than that amount, so the clip at 0 of  *)
(* the subtraction changes nothing.                                        *)
(***************************************************************************)
C15_ChildCostWithinReproductionAmount ==
    (CellStepped /\ call.returned[1].child # <<>>) =>
        /\ f32_le(CallConstants.create_child_energy,
                  call.returned[1].budgeted_energies.reproduction)
        /\ call.returned[1].child[1].state.energy =
              f32_sub(call.returned[1].budgeted_energies.reproduction,
                      CallConstants.create_child_energy)

(***************************************************************************)
(* C16: expending energy in Cell.step reduces the energy by the total      *)
(* committed amount (clipped at 0) and the health by that amount times     *)
(* health_reduction_per_energy_expended (product and result each clipped   *)
(* to [0,1]); the amount is reproduction + eating + healing, charged       *)
(* alike.                                                                  *)
(***************************************************************************)
C16_ExpendingChargesEnergyAndHealth ==
    CellStepped =>
        /\ call.returned[1].expended.state.energy =
              F32Positive_clipped(f32_sub(call.cell.state.energy, Committed))
        /\ call.returned[1].expended.state.health =
              F32ZeroToOne_clipped(
                  f32_sub(call.cell.state.health,
                          F32ZeroToOne_clipped(
                              f32_mul(Committed,
                                      CallConstants.health_reduction_per_energy_expended))))
        /\ call.returned[1].expended.params = call.cell.params

\* a step that commits energy to reproduction, eating and healing and whose
\* cost takes a part of the health
C16_Witness ==
    /\ CellStepped
    /\ call.returned[1].child # <<>>
    /\ f32_gt(call.returned[1].budgeted_energies.reproduction, Zero)
    /\ f32_gt(call.returned[1].budgeted_energies.eating, Zero)
    /\ f32_gt(call.returned[1].budgeted_energies.healing, Zero)
    /\ f32_lt(call.returned[1].expended.state.health, call.cell.state.health)
    /\ f32_gt(call.returned[1].expended.state.health, Zero)

(***************************************************************************)
(* C17: the food a cell consumes in a step, the amount Cell.step returns,  *)
(* is min(budgeted eating energy * food_yield_from_eating, food_per_cell); *)
(* it never exceeds food_per_cell.                                         *)
(***************************************************************************)
C17_FoodEatenWithinShare ==
    CellStepped =>
        /\ call.returned[1].food =
              f32_min(f32_mul(call.returned[1].budgeted_energies.eating,
                              CallConstants.food_yield_from_eating),
                      call.environment.food_per_cell)
        /\ f32_le(call.returned[1].food, call.environment.food_per_cell)
        /\ f32_ge(call.returned[1].food, Zero)

\* a cell whose eating energy would yield more than its share
C17_Witness ==
    /\ CellStepped
    /\ f32_gt(call.environment.food_per_cell, Zero)
    /\ f32_gt(f32_mul(call.returned[1].budgeted_energies.eating,
                      CallConstants.food_yield_from_eating),
              call.environment.food_per_cell)
    /\ call.returned[1].food = call.environment.food_per_cell

(***************************************************************************)
(* C18: the energy of a cell after a step is (energy before - total        *)
(* committed energy) + food consumed * energy_yield_from_digestion; the    *)
(* budgeted eating energy is charged in full even when no food is          *)
(* obtained.                                                               *)
(***************************************************************************)
C18_EnergyAfterStep ==
    CellStepped =>
        /\ call.returned[1].cell.state.energy =
              f32_add(f32_sub(call.cell.state.energy, Committed),
                      f32_mul(call.returned[1].food,
                              CallConstants.energy_yield_from_digestion))
        /\ call.returned[1].food = Zero =>
              call.returned[1].cell.state.energy =
                  f32_sub(call.cell.state.energy, Committed)

\* a cell that spends energy on eating and healing and digests what it eats
\* at a yield of 1/2, ending the step with less energy than it began with
C18_Witness ==
    /\ CellStepped
    /\ f32_gt(call.returned[1].budgeted_energies.eating, Zero)
    /\ f32_gt(call.returned[1].food, Zero)
    /\ CallConstants.energy_yield_from_digestion = F(1, 2)
    /\ f32_gt(call.returned[1].budgeted_energies.healing, Zero)
    /\ f32_lt(call.returned[1].cell.state.energy, call.cell.state.energy)

(***************************************************************************)
(* C19: every Cell.step reduces health by health_reduction_from_entropy    *)
(* (clipped at 0), whatever the energy, the params, the environment and    *)
(* whether it reproduces; with no energy expended and no healing a cell of *)
(* health h has health max(0, h - entropy) after the step.                 *)
(***************************************************************************)
C19_EntropyEveryStep ==
    CellStepped =>
        /\ call.returned[1].aged.state.health =
              f32_max(Zero, f32_sub(call.returned[1].expended.state.health,
                                    CallConstants.health_reduction_from_entropy))
        /\ (Committed = Zero) =>
              call.returned[1].cell.state.health =
                  f32_max(Zero, f32_sub(call.cell.state.health,
                                        CallConstants.health_reduction_from_entropy))

\* the example: health 1 and entropy 1/4 give 3/4, in a cell with energy
\* that expends none
C19_Witness ==
    /\ CellStepped
    /\ call.cell.state.health = One
    /\ f32_gt(call.cell.state.energy, Zero)
    /\ CallConstants.health_reduction_from_entropy = F(1, 4)
    /\ Committed = Zero
    /\ call.returned[1].cell.state.health = F(3, 4)

(***************************************************************************)
(* C20: within one Cell.step the health changes in the order damage from   *)
(* expended energy, entropy, healing, each result clipped to [0,1] before  *)
(* the next: final health =                                                *)
(* clip(clip(clip(h - total * loss_rate) - entropy) + clip(healing * rate)). *)
(***************************************************************************)
C20_HealthChangesInOrder ==
    CellStepped =>
        call.returned[1].cell.state.health =
            F32ZeroToOne_clipped(
                f32_add(
                    F32ZeroToOne_clipped(
                        f32_sub(
                            F32ZeroToOne_clipped(
                                f32_sub(call.cell.state.health,
                                        f32_mul(call.returned[1].total_budgeted,
                                                CallConstants.health_reduction_per_energy_expended))),
                            CallConstants.health_reduction_from_entropy)),
                    F32ZeroToOne_clipped(
                        f32_mul(call.returned[1].budgeted_energies.healing,
                                CallConstants.health_increase_per_healing_energy))))

\* a cell whose expended energy takes all of its health and whose healing
\* of the same step brings it back to 1
C20_Witness ==
    /\ CellStepped
    /\ call.cell.state.health = One
    /\ call.returned[1].expended.state.health = Zero
    /\ call.returned[1].cell.state.health = One

(***************************************************************************)
(* C21: when a cell reproduces, the offspring has health 1 whatever the    *)
(* health of the parent and energy equal to the budgeted reproduction      *)
(* amount minus create_child_energy (the subtraction of non-negative       *)
(* values, which clips at 0); the energy of the parent is reduced by the   *)
(* full budgeted reproduction amount.                                      *)
(***************************************************************************)
C21_OffspringHealthAndEnergy ==
    (CellStepped /\ call.returned[1].child # <<>>) =>
        /\ call.returned[1].child[1].state.health = One
        /\ call.returned[1].child[1].state.energy =
              f32_max(Zero, f32_sub(ThreeWayBudget.budgeted[1],
                                    CallConstants.create_child_energy))
        /\ call.returned[1].budgeted_energies.reproduction = ThreeWayBudget.budgeted[1]
        /\ call.returned[1].expended.state.energy =
              f32_sub(call.cell.state.energy,
                      f32_add(ThreeWayBudget.budgeted[1],
                              f32_add(call.returned[1].budgeted_energies.eating,
                                      call.returned[1].budgeted_energies.healing)))

\* the example, for a parent of health 1/2: create cost 1.5, threshold 4,
\* parent energy 10 give offspring energy 2.5 and parent energy 6
C21_Witness ==
    /\ CellStepped
    /\ call.cell.state.health = F(1, 2)
    /\ call.cell.state.energy = F(10, 1)
    /\ call.cell.params.child_threshold_energy = F(4, 1)
    /\ CallConstants.create_child_energy = F(3, 2)
    /\ call.returned[1].child # <<>>
    /\ call.returned[1].child[1].state = [energy |-> F(5, 2), health |-> One]
    /\ call.returned[1].cell.state.energy = F(6, 1)

(***************************************************************************)
(* C22: each of the four params of the offspring is mutate(the parent's    *)
(* value of that param, the mutation stdev of that param), each on its     *)
(* own; with the identity source the params are the parent's, with the     *)
(* additive source each is the parent's value + its own stdev.             *)
(***************************************************************************)
\* what a source returns for value and stdev: the value (identity), value +
\* stdev (additive), the first sample value + z * stdev that is >= 0 (random,
\* for a source of two draws)
ExpectedMutation(source, value, stdev) ==
    CASE source.kind = "Null" -> value
      [] source.kind = "Additive" -> f32_add(value, stdev)
      [] source.kind = "Random" ->
            IF f32_ge(f32_add(value, f32_mul(source.draws[1], stdev)), Zero)
            THEN f32_add(value, f32_mul(source.draws[1], stdev))
            ELSE f32_add(value, f32_mul(source.draws[2], stdev))

C22_OffspringParamsMutatedEachOnItsOwn ==
    (CellStepped /\ call.returned[1].child # <<>>) =>
        call.returned[1].child[1].params =
            [attempted_eating_energy |->
                ExpectedMutation(call.source, call.cell.params.attempted_eating_energy,
                                 CallConstants.attempted_eating_energy_mutation_stdev),
             attempted_healing_energy |->
                ExpectedMutation(call.source, call.cell.params.attempted_healing_energy,
                                 CallConstants.attempted_healing_energy_mutation_stdev),
             child_threshold_energy |->
                ExpectedMutation(call.source, call.cell.params.child_threshold_energy,
                                 CallConstants.child_threshold_energy_mutation_stdev),
             child_threshold_food |->
                ExpectedMutation(call.source, call.cell.params.child_threshold_food,
                                 CallConstants.child_threshold_food_mutation_stdev)]

\* an offspring made with the additive source from constants whose four
\* stdevs differ
C22_Witness ==
    /\ CellStepped
    /\ call.source.kind = "Additive"
    /\ call.returned[1].child # <<>>
    /\ call.cell.params = [attempted_eating_energy |-> F(2, 1),
                           attempted_healing_energy |-> One,
                           child_threshold_energy |-> F(4, 1),
                           child_threshold_food |-> Zero]
    /\ call.returned[1].child[1].params =
          [attempted_eating_energy |-> F(11, 4),
           attempted_healing_energy |-> F(2, 1),
           child_threshold_energy |-> F(17, 4),
           child_threshold_food |-> F(1, 2)]

(***************************************************************************)
(* C23: Cell.step never changes the params of the stepping cell nor the    *)
(* shared constants: the params and the constants reference of the parent  *)
(* are the same before and after the step, the offspring refers to the     *)
(* constants of the parent, and the values of the constants are the same   *)
(* in every reachable state.                                               *)
(***************************************************************************)
C23_StepKeepsParamsAndConstants ==
    /\ constants = CellStepConstantsTable
    /\ CellStepped =>
          /\ call.returned[1].cell.params = call.cell.params
          /\ call.returned[1].cell.constants = call.cell.constants
          /\ call.returned[1].expended.params = call.cell.params
          /\ \A i \in DOMAIN call.returned[1].child :
                call.returned[1].child[i].constants = call.cell.constants

\* a step whose offspring has params that differ from those of its parent
C23_Witness ==
    /\ CellStepped
    /\ call.returned[1].child # <<>>
    /\ call.returned[1].child[1].params # call.cell.params
    /\ call.returned[1].cell.params = call.cell.params

(***************************************************************************)
(* C24: for every value >= 0 and stdev >= 0 the random mutation source     *)
(* never returns a negative result (negative samples are rejected and the  *)
(* sampling repeated); the identity and the additive source return         *)
(* non-negative values too.                                                *)
(***************************************************************************)
Mutated == call.kind = "mutate" /\ call.returned # <<>>

C24_MutationNeverNegative ==
    Mutated =>
        /\ Len(call.returned) = 1
        /\ IsFinite(call.returned[1])
        /\ f32_ge(call.returned[1], Zero)
        /\ call.source.kind = "Random" =>
              \E i \in DOMAIN call.source.draws :
                 /\ call.returned[1] =
                       f32_add(call.value, f32_mul(call.source.draws[i], call.stdev))
                 /\ \A j \in 1..(i - 1) :
                       f32_lt(f32_add(call.value,
                                      f32_mul(call.source.draws[j], call.stdev)), Zero)

\* a random source whose first two samples are negative and rejected and
\* whose third is returned
C24_Witness ==
    /\ Mutated
    /\ call.source.kind = "Random"
    /\ call.source.draws = <<F(-2, 1), F(-2, 1), One>>
    /\ call.value = One
    /\ call.stdev = One
    /\ call.returned = <<F(2, 1)>>

(***************************************************************************)
(* C25: in every tick each food source is polled exactly once and its      *)
(* yield added to the pool before any cell is stepped; the share           *)
(* food_per_cell is computed once, as (pool after polling) / (population   *)
(* at the start of the tick), and every cell of the tick is given that     *)
(* same value.                                                             *)
(***************************************************************************)
\* the source after exactly one poll
PolledOnce(source) ==
    IF source.kind = "Constant" THEN source
    ELSE [source EXCEPT !.next_food = f32_add(@, source.food_increase_per_step)]

\* the share of the last tick
LastShare == f32_div(f32_add(last.pre_food, ExactSum(Yields(last.pre_food_sources))),
                     F(Len(last.pre_cells), 1))

C25_SourcesPolledOnceAndShareFixed ==
    Stepped =>
        /\ Len(food_sources) = Len(last.pre_food_sources)
        /\ \A i \in DOMAIN food_sources :
              food_sources[i] = PolledOnce(last.pre_food_sources[i])
        /\ last.polled_food =
              f32_add(last.pre_food, ExactSum(Yields(last.pre_food_sources)))
        /\ last.environment.food_per_cell = LastShare
        /\ \A i \in DOMAIN last.pre_cells :
              \E r \in {Cell_step(last.pre_cells[i], last.source,
                                  [food_per_cell |-> LastShare])} :
                 /\ last.stepped_cells[i] = r.cell
                 /\ last.eaten[i] = r.food

\* the second tick of a world with two food sources, in which the first of
\* several cells eats from the pool and a later cell eats too
C25_Witness ==
    /\ Stepped
    /\ ticks = 2
    /\ Len(last.pre_food_sources) = 2
    /\ last.pre_food_sources[2].kind = "LinearlyGrowing"
    /\ food_sources[2].next_food = F(3, 1)
    /\ Len(last.pre_cells) >= 2
    /\ f32_gt(last.eaten[1], Zero)
    /\ f32_gt(last.eaten[Len(last.pre_cells)], Zero)

(***************************************************************************)
(* C26: after a tick the pool is (pool before + the yields of the sources) *)
(* - the food consumed by the stepped cells.  Each cell consumes at most   *)
(* the share, so the total consumed is <= the pool after polling: the pool *)
(* never goes below 0 and the clip of the subtraction changes nothing.     *)
(***************************************************************************)
C26_PoolAccounting ==
    Stepped =>
        /\ food = f32_sub(f32_add(last.pre_food, ExactSum(Yields(last.pre_food_sources))),
                          ExactSum(last.eaten))
        /\ \A i \in DOMAIN last.eaten :
              f32_le(last.eaten[i], last.environment.food_per_cell)
        /\ f32_le(ExactSum(last.eaten), last.polled_food)
        /\ f32_ge(food, Zero)

\* pool 4 and two cells, one of which demands 3: it consumes the share, 2,
\* and food is left in the pool
C26_Witness ==
    /\ Stepped
    /\ last.polled_food = F(4, 1)
    /\ Len(last.pre_cells) = 2
    /\ \E i \in DOMAIN last.pre_cells :
          /\ last.pre_cells[i].params.attempted_eating_energy = F(3, 1)
          /\ last.eaten[i] = F(2, 1)
    /\ f32_gt(food, Zero)
    /\ f32_lt(food, last.polled_food)

RunInvariant ==
    call.kind = "run" =>
        /\ ticks = call.step
        /\ call.step <= call.steps
        /\ ~panicked
        /\ last.kind # "none" => last.pre_cells # <<>>
        /\ call.done => (call.step = call.steps \/ cells = <<>>)
        /\ (cells = <<>> /\ ~call.done) => ENABLED run_exit

C28_RunTerminates == []RunInvariant /\ <>(call.kind = "run" /\ call.done)

\* a run that has returned with steps left, after a tick that left no cell
C28_Witness ==
    /\ call.kind = "run"
    /\ call.done
    /\ call.step >= 1
    /\ call.step < call.steps
    /\ last.pre_cells # <<>>
    /\ cells = <<>>

(***************************************************************************)
(* C29: with the identity or the additive mutation source and constant or  *)
(* linearly growing food sources, two worlds built equal have, after every *)
(* equal number of ticks, equal food pools, equal (births, deaths) results *)
(* of the tick just made and equal multisets of cells; one fails exactly   *)
(* when the other does.                                                    *)
(***************************************************************************)
Deterministic == mutation_number_source \in {"Null", "Additive"}

NumberReturned == call.kind = "number" /\ call.returned # <<>>

Below0(v) == (v.d # 0 /\ v.n < 0) \/ v = f32_neg(Infinity)

Above1(v) == (v.d # 0 /\ v.n > v.d) \/ v = Infinity

\* a checked construction: it fails exactly on out, and builds v otherwise
CheckedAgainst(built, v, out) ==
    /\ built.fails = (out \/ is_nan(v))
    /\ ~built.fails => built.value = v

\* the nearest value to v that is not below 0
Nearest0(v) == IF Below0(v) \/ is_nan(v) THEN Zero ELSE v

\* the nearest value to v in [0, 1]
Nearest01(v) == IF Above1(v) THEN One ELSE Nearest0(v)

C30_BoundedConstruction ==
    NumberReturned =>
        /\ CheckedAgainst(call.returned[1].F32Positive_checked, call.value,
                          Below0(call.value))
        /\ CheckedAgainst(call.returned[1].F32Positive_from, call.value,
                          Below0(call.value))
        /\ \A f \in {"F32ZeroToOne_checked", "F32ZeroToOne_from",
                      "F32ZeroToOnePerF32Positive_checked",
                      "F32ZeroToOnePerF32Positive_from"} :
              CheckedAgainst(call.returned[1][f], call.value,
                             Below0(call.value) \/ Above1(call.value))
        /\ call.returned[1].F32Positive_clipped = Nearest0(call.value)
        /\ call.returned[1].F32ZeroToOne_clipped = Nearest01(call.value)
        /\ call.returned[1].F32ZeroToOnePerF32Positive_clipped = Nearest01(call.value)
        /\ call.value = F(-1, 2) =>
              /\ call.returned[1].F32Positive_clipped = Zero
              /\ call.returned[1].F32ZeroToOne_clipped = Zero
        /\ call.value = F(3, 2) =>
              /\ call.returned[1].F32Positive_clipped = F(3, 2)
              /\ call.returned[1].F32ZeroToOne_clipped = One
        /\ InRange01(call.returned[1].scalar_mul_rate)
        /\ call.returned[1].scalar_mul_rate =
              Nearest01(f32_mul(call.scalar, call.rate))
        /\ call.returned[1].rate_mul_scalar = call.returned[1].scalar_mul_rate

\* 3/2 given to every constructor, and the product 3/2 * 1 clipped to 1
C30_Witness ==
    /\ NumberReturned
    /\ call.value = F(3, 2)
    /\ ~call.returned[1].F32Positive_checked.fails
    /\ call.returned[1].F32ZeroToOne_checked.fails
    /\ call.returned[1].F32ZeroToOne_clipped = One
    /\ call.scalar = F(3, 2)
    /\ call.rate = One
    /\ call.returned[1].scalar_mul_rate = One

(***************************************************************************)
(* C31: a cell with child_threshold_energy > 0 returns an offspring only   *)
(* if its energy at the start of the step is >= child_threshold_energy +   *)
(* attempted_eating_energy + attempted_healing_energy; in such a step      *)
(* eating and healing are budgeted in full and the reproduction amount is  *)
(* the threshold exactly.                                                  *)
(***************************************************************************)
\* child_threshold_energy + attempted_eating_energy + attempted_healing_energy
DesiredWithReproduction ==
    ExactSum(<<call.cell.params.child_threshold_energy,
               call.cell.params.attempted_eating_energy,
               call.cell.params.attempted_healing_energy>>)

C32_ZeroThresholdAlwaysReproduces ==
    (/\ CellStepped
     /\ call.cell.params.child_threshold_energy = Zero
     /\ f32_ge(call.environment.food_per_cell,
               call.cell.params.child_threshold_food)) =>
        /\ Len(call.returned[1].child) = 1
        /\ call.returned[1].child[1].state = [energy |-> Zero, health |-> One]
        /\ call.returned[1].budgeted_energies.reproduction = Zero
        /\ call.returned[1].total_budgeted =
              f32_add(call.returned[1].budgeted_energies.eating,
                      call.returned[1].budgeted_energies.healing)

\* an offspring of a cell that has no energy at all, and one of a cell whose
\* budget is scaled down, told apart by the energy
C32_Witness ==
    /\ CellStepped
    /\ call.cell.params.child_threshold_energy = Zero
    /\ call.cell.state.energy = Zero
    /\ f32_gt(call.cell.params.attempted_healing_energy, Zero)
    /\ f32_gt(CallConstants.create_child_energy, Zero)
    /\ call.returned[1].child # <<>>
    /\ call.returned[1].child[1].state.energy = Zero
    /\ call.returned[1].total_budgeted = Zero

YieldsNothing(source) ==
    IF source.kind = "Constant"
    THEN source.food_per_step = Zero
    ELSE source.next_food = Zero /\ source.food_increase_per_step = Zero

NoYield(sources) == \A i \in DOMAIN sources : YieldsNothing(sources[i])

EachCellSteppedOnItsOwn ==
    Stepped =>
        /\ Len(last.stepped_cells) = Len(last.pre_cells)
        /\ \A i \in DOMAIN last.pre_cells :
              last.stepped_cells[i] = LastCellStep(i).cell

C36_PoolAndCellFrame ==
    /\ []EachCellSteppedOnItsOwn
    /\ [][/\ NoYield(food_sources) => f32_le(food', food)
          /\ food' # food => ticks' = ticks + 1]_vars

\* a second tick without any yield in which two cells ate from the pool, one
\* more than the other
C36_Witness ==
    /\ Stepped
    /\ ticks = MaxTicks
    /\ last.pre_food_sources # <<>>
    /\ NoYield(last.pre_food_sources)
    /\ f32_lt(food, last.pre_food)
    /\ Len(last.pre_cells) >= 2
    /\ \E i, j \in DOMAIN last.eaten :
          f32_gt(last.eaten[i], last.eaten[j]) /\ f32_gt(last.eaten[j], Zero)

(***************************************************************************)
(* C34: a cell that gets no healing under health_reduction_from_entropy =  *)
(* e > 0 never gains health, and loses some in every tick in which it has  *)
(* any if e >= 2^-24.  When e is a multiple of 2^-24 (e = 0.25, for one),  *)
(* every tick takes at least e from a positive health and the cell is      *)
(* removed after at most ceil(1/e) ticks, whatever energy it expends.      *)
(* As stated for every e > 0, with strictly decreasing health and removal  *)
(* after at most ceil(1/e) ticks, the property does not hold: the f32      *)
(* difference health - e is rounded.                                       *)
(***************************************************************************)
Decaying == call.kind = "decay"

\* ceil(1 / e)
CeilOfInverse(e) == ((F32_ONE - 1) \div e) + 1

\* the ticks made by the cell so far
DecayTicks == Len(call.damages)

\* the statement for every e > 0
C34_RemovedWithinCeilOfInverse ==
    (Decaying /\ call.health_reduction_from_entropy > 0) =>
        /\ (DecayTicks >= 1 /\ call.before > 0) => call.health < call.before
        /\ ~call.removed => DecayTicks < CeilOfInverse(call.health_reduction_from_entropy)

C34_RemovedWithinCeilOfInverseWhenExact ==
    (Decaying /\ call.health_reduction_from_entropy > 0) =>
        /\ call.health <= call.before
        /\ (/\ call.health_reduction_from_entropy >= F32_EPSILON_HALF
            /\ DecayTicks >= 1
            /\ call.before > 0) => call.health < call.before
        /\ call.health_reduction_from_entropy % F32_EPSILON_HALF = 0 =>
              /\ (DecayTicks >= 1 /\ call.before > 0) =>
                    \/ call.health = 0
                    \/ call.health <= call.before - call.health_reduction_from_entropy
              /\ ~call.removed =>
                    DecayTicks < CeilOfInverse(call.health_reduction_from_entropy)

\* the example: with e = 0.25 a cell of health 1 that expends nothing is
\* removed by its fourth tick
C34_Witness ==
    /\ Decaying
    /\ call.health_reduction_from_entropy = 2^28
    /\ call.initial = F32_ONE
    /\ call.damages = <<0, 0, 0, 0>>
    /\ call.before = 2^28
    /\ call.removed

(***************************************************************************)
(* C33: a cell is recorded dead by its health at the end of its step and   *)
(* by nothing else: a cell whose health was 0 after expend_energy and      *)
(* entropy (it started the step at 0, or lost its health in it) and that   *)
(* gets a positive amount of healing ends the step with health > 0 and     *)
(* stays in the population; a cell that starts a tick at health 0 is       *)
(* stepped like any other: what it eats is taken from the pool and its     *)
(* offspring joins the population, also when it is removed itself.         *)
(***************************************************************************)
\* the health added by heal in the step that gave stepped
HealthHealed(stepped) ==
    Rate_mul(stepped.budgeted_energies.healing,
             constants[stepped.cell.constants].health_increase_per_healing_energy)

\* the cell at index i + 1 before the tick is recorded dead
RecordedDead(i) == (i - 1) \in Range(last.dead_cell_indexes)

DeathOf(i, stepped) ==
    /\ last.stepped_cells[i] = stepped.cell
    /\ last.eaten[i] = stepped.food
    /\ RecordedDead(i) <=> stepped.cell.state.health = Zero
    /\ f32_gt(HealthHealed(stepped), Zero) =>
          /\ f32_gt(stepped.cell.state.health, Zero)
          /\ ~RecordedDead(i)
          /\ \E j \in DOMAIN cells : cells[j] = stepped.cell
    /\ stepped.child # <<>> =>
          \E j \in DOMAIN cells : cells[j] = stepped.child[1]

C33_DeathByHealthAtEndOfStep ==
    Stepped =>
        /\ \A i \in DOMAIN last.pre_cells : DeathOf(i, LastCellStep(i))
        /\ food = F32Positive_clipped(f32_sub(last.polled_food, ExactSum(last.eaten)))

\* the cell at index i + 1 had no health left after entropy, was healed and
\* is kept
HealedBack(i, stepped) ==
    /\ stepped.aged.state.health = Zero
    /\ f32_gt(stepped.cell.state.health, Zero)
    /\ ~RecordedDead(i)

\* the cell at index i + 1 started the tick at health 0, ate, had an
\* offspring and is removed
LastAct(i, stepped) ==
    /\ last.pre_cells[i].state.health = Zero
    /\ f32_gt(stepped.food, Zero)
    /\ stepped.child # <<>>
    /\ RecordedDead(i)

\* a tick with a cell of each kind, the first having lost its health in the
\* tick
C33_Witness ==
    /\ Stepped
    /\ \E i \in DOMAIN last.pre_cells :
          /\ f32_gt(last.pre_cells[i].state.health, Zero)
          /\ HealedBack(i, LastCellStep(i))
    /\ \E i \in DOMAIN last.pre_cells : LastAct(i, LastCellStep(i))
    /\ f32_lt(food, last.polled_food)
    /\ Len(last.new_cells) >= 1

====
